---- MODULE Spec2Model ----
(***************************************************************************)
(* State-machine model of the Gemini web client: GeminiClient (session     *)
(* lifecycle, cookie rotation timer, generateContent), rotate1PSIDTS and   *)
(* getAccessToken (utility functions), and ChatSession (the conversation   *)
(* thread with its continuation pointer `metadata`).                        *)
(*                                                                         *)
(* Every `await` of the source is a point where other callbacks may run,   *)
(* so each async function is split into one action per synchronous         *)
(* segment: the part up to the request, and the part handling the          *)
(* response.  The backend and the clock are the environment.               *)
(***************************************************************************)
EXTENDS Integers, Sequences, FiniteSets, TLC

\* ------------------------------------------------------------------ bounds
MaxFlight == 1           \* generation requests that may be in flight at once
MaxTicksPending == 1     \* rotation requests that may be in flight at once
MaxNow == 90000          \* the clock stops advancing at this time (ms)
MaxClients == 3          \* GeminiClient objects the server creates
MaxChats == 2            \* chat ids the server hands out
MaxRequests == 2         \* HTTP requests being handled at once

\* ------------------------------------------------------- program constants
DebounceMs == 60000      \* rotate1PSIDTS: cache younger than this => skip
PointerSlots == 3        \* ChatSession.setMetadata: at most 3 elements
NoClient == 0            \* server.js: let geminiClient = null

\* ------------------------------------------------------------- JS values
Null == "null"           \* JavaScript null
Undef == "undefined"     \* JavaScript undefined (also an array hole)
Absent == "absent"       \* a key that an object does not have

\* An array-or-null value such as ChatSession.metadata / body[1]:
\* arr = FALSE is a value no property can be set on (null, undefined or a
\* primitive); arr = TRUE is an array whose elements are `slots`.
NullPtr == [arr |-> FALSE, slots |-> <<>>]
Arr(s) == [arr |-> TRUE, slots |-> s]

Max(a, b) == IF a >= b THEN a ELSE b

\* a[i] = v on a JS array (i is 1-based here): assigning past the end grows
\* the array and leaves holes, which read as undefined.
SetIndex(s, i, v) ==
    [k \in 1..Max(Len(s), i) |->
        IF k = i THEN v ELSE IF k <= Len(s) THEN s[k] ELSE Undef]

\* a[i] read on a JS array: undefined past the end.
GetIndex(s, i) == IF i \in 1..Len(s) THEN s[i] ELSE Undef

\* JSON.stringify of an array element: undefined and holes become null.
JsonValue(v) == IF v = Undef THEN Null ELSE v

\* JSON.stringify(chat.metadata) as it is embedded in the request envelope.
JsonPointer(p) ==
    IF p.arr THEN Arr([k \in 1..Len(p.slots) |-> JsonValue(p.slots[k])])
    ELSE NullPtr

\* ------------------------------------------------------------ input sets
Threads == {1, 2}                 \* the chats started on the one client
OneThread == {1}                  \* the chat of a client serving one thread
NoChat == 0                       \* generateContent without options.chat
Prompts == {Undef, "", " ", "hi"} \* absent, empty, whitespace only, non-empty
SeedPSID == {Absent, "sid"}       \* constructor: secure1PSID defaults to null
SeedPSIDTS == {Absent, "ts0"}     \* constructor: secure1PSIDTS is optional
RotatedTS == {"ts1"}              \* the value the rotation endpoint hands out
TimerIds == {1, 2}
NoTimer == 0                      \* refreshIntervalId = null
ClockStep == 30000                \* the clock advances in steps of this (ms)

\* HTTP outcomes.  0 stands for a request that got no response (timeout).
AuthDenied == {401, 403}          \* generateContent / getAccessToken
AuthDeniedRotate == {401}         \* rotate1PSIDTS
GenStatuses == {0, 200, 204, 401, 403, 500}
AppStatuses == {200, 401, 404, 500}
\* what /"SNlM0e":"(.*?)"/ captures in the app page: no match, an empty
\* capture, a token
Markers == {Absent, "", "tok"}
GoogleStatuses == {200, 403, 500}
RotateStatuses == {200, 401, 403, 500}

\* Decoded-response ingredients: body[1] (metadata) and body[4] (candidates).
Metas == { NullPtr,
           Arr(<<"c1", "r1">>),
           Arr(<<"c2", "r2", "m2", "n2">>) }
Cand(id, txt) == [rcid |-> id, text |-> txt]
NoCand == Cand(Undef, Undef)
CandLists == { <<>>, <<Cand("rcA", "tA")>>,
               <<Cand("rcA", "tA"), Cand("rcB", "tB")>> }

\* The raw response text, abstracted to what parseResponse inspects: the
\* number of lines, and whether its last line holds a body, with the body's
\* metadata and candidates. The first is a two-line text that holds a
\* well-formed body.
ResponseTexts ==
    { [lines |-> 2, hasBody |-> TRUE, meta |-> Arr(<<"c1", "r1">>),
       cands |-> <<Cand("rcA", "tA")>>],
      [lines |-> 3, hasBody |-> FALSE, meta |-> NullPtr, cands |-> <<>>] }
    \cup { [lines |-> 3, hasBody |-> TRUE, meta |-> m, cands |-> cs] :
              m \in Metas, cs \in CandLists }

NoText == [lines |-> 0, hasBody |-> FALSE, meta |-> NullPtr, cands |-> <<>>]

\* setMetadata inputs, by length 0..4
SetInputs == { <<>>, <<"u">>, <<"u", "u">>, <<"u", "u", "u">>,
               <<"u", "u", "u", "u">> }
\* the responses a client used without a chat is given: one that fails to
\* decode and one that decodes
PlainTexts ==
    { [lines |-> 2, hasBody |-> FALSE, meta |-> NullPtr, cands |-> <<>>],
      [lines |-> 3, hasBody |-> TRUE, meta |-> Arr(<<"c1", "r1">>),
       cands |-> <<Cand("rcA", "tA")>>] }
Indexes == {-1, 0, 1, 2}          \* chooseCandidate arguments

\* ------------------------------------------- JavaScript values (decoder)
\* A value of the response payload: k is its type, s the characters of a
\* string, n the value of a number or the length of a string, a the elements
\* of an array.  A string that is JSON text carries in `a` the one value it
\* decodes to; every other string is not JSON text.  JThrow stands for an
\* exception raised where a value was expected.
JV(k, s, n, a) == [k |-> k, s |-> s, n |-> n, a |-> a]
JNull == JV("null", "", 0, <<>>)
JUndef == JV("undefined", "", 0, <<>>)
JThrow == JV("throw", "", 0, <<>>)
JNum(n) == JV("number", "", n, <<>>)
JStr(s, n) == JV("string", s, n, <<>>)
JArr(a) == JV("array", "", 0, a)
JText(v) == JV("string", "json", 4, <<v>>)     \* JSON.stringify(v)
JChar == JStr("c", 1)                          \* one character of a string

\* an array of `len` elements that holds f[i] at the indexes of f and null
\* everywhere else
Sparse(len, f) ==
    JArr([i \in 1..len |-> IF (i - 1) \in DOMAIN f THEN f[i - 1] ELSE JNull])

\* ToBoolean(v)
Truthy(v) ==
    CASE v.k \in {"null", "undefined", "throw"} -> FALSE
      [] v.k \in {"number", "string"} -> v.n # 0
      [] OTHER -> TRUE

\* v[i]: a TypeError on null and undefined, a character of a string,
\* undefined past the end and on a number
Idx(v, i) ==
    CASE v.k \in {"null", "undefined", "throw"} -> JThrow
      [] v.k = "array" -> IF i < Len(v.a) THEN v.a[i + 1] ELSE JUndef
      [] v.k = "string" -> IF i < v.n THEN JChar ELSE JUndef
      [] OTHER -> JUndef

\* Array.isArray(v)
IsArray(v) == v.k = "array"

\* the number of rounds of `for (i = 0; i < v.length; i++)`: v.length is
\* undefined on a number, and i < undefined is false
Length(v) ==
    CASE v.k = "array" -> Len(v.a)
      [] v.k = "string" -> v.n
      [] OTHER -> 0

\* the elements `for (const x of v)` visits; numbers are not iterable
Iterable(v) == v.k \in {"array", "string"}
Elements(v) ==
    IF v.k = "array" THEN v.a ELSE [i \in 1..Length(v) |-> JChar]

\* x || d and x && y
Or(x, d) == IF x.k = "throw" THEN JThrow ELSE IF Truthy(x) THEN x ELSE d
And(x, y) == IF Truthy(x) THEN y ELSE x

\* JSON.parse(v): the argument is converted to a string first, so null
\* decodes to null and a number to itself, while undefined, text that is
\* not JSON and the arrays used here raise SyntaxError
JsonParse(v) ==
    CASE v.k = "string" /\ v.a # <<>> -> v.a[1]
      [] v.k = "null" -> JNull
      [] v.k = "number" -> v
      [] OTHER -> JThrow

\* ---------------------------------------------- GeminiClient.parseResponse
\* The texts the decoder is given, and what its regular expressions find in
\* them ("~" stands for a line break, <fence> for three backquotes).
CardUrl == "http://googleusercontent.com/card_content/0"
ChipUrl == "http://googleusercontent.com/immersive_entry_chip/0"
ChipText == "see http://googleusercontent.com/immersive_entry_chip/0"
FencedText == "run <fence>js~f()~<fence> and <fence>~g()~<fence>"

\* text.match(/^http:\/\/googleusercontent\.com\/card_content\/\d+/)
MatchesCard(s) == s = CardUrl

\* text.match(immersiveChipRegex): chipMatches ? chipMatches[0] : null
ChipMatch(s) == IF s = ChipText THEN JStr(ChipUrl, 51) ELSE JNull

\* what the loop over codeBlockRegex pushes: for every fenced region its
\* language tag, or 'text', and its trimmed content
FencedBlocks(s) ==
    IF s = FencedText
    THEN << [language |-> JStr("js", 2), code |-> JStr("f()", 3)],
            [language |-> JStr("text", 4), code |-> JStr("g()", 3)] >>
    ELSE <<>>

\* detectMimeType(fileName) on the file names used here; a truthy value that
\* is no string has no split method
MimeType(name) ==
    CASE ~Truthy(name) -> JStr("text/plain", 10)
      [] name.k # "string" -> JThrow
      [] name.s = "main.py" -> JStr("text/x-python", 13)
      [] name.s = "notes.md" -> JStr("text/markdown", 13)
      [] OTHER -> JStr("text/plain", 10)

\* let text = candidate[1][0], and the card-content replacement; match is a
\* method of strings only
CandidateText(candidate) ==
    LET text == Idx(Idx(candidate, 1), 0) IN
    IF text.k = "throw" THEN JThrow
    ELSE IF ~Truthy(text) THEN text
    ELSE IF text.k # "string" THEN JThrow
    ELSE IF MatchesCard(text.s)
    THEN Or(And(Idx(candidate, 22), Idx(Idx(candidate, 22), 0)), text)
    ELSE text

\* thoughts (lines 311-318)
Thoughts(candidate) ==
    IF Truthy(Idx(candidate, 37)) /\ Truthy(Idx(Idx(candidate, 37), 0))
    THEN Idx(Idx(Idx(candidate, 37), 0), 0)
    ELSE JNull

\* file attachments (lines 325-346): the entries pushed before the first
\* entry that raises; nothing when text.match raises
IsFileEntry(file) == Truthy(file) /\ IsArray(file) /\ Len(file.a) >= 5
FileRaises(file) == IsFileEntry(file) /\ MimeType(Idx(file, 0)).k = "throw"
FileAttachment(file, text) ==
    [fileName |-> Or(Idx(file, 0), JStr("file.txt", 8)),
     mimeType |-> MimeType(Idx(file, 0)),
     url |-> ChipMatch(text.s),
     title |-> Or(Idx(file, 2), JNull),
     content |-> Or(Idx(file, 4), JNull)]

RECURSIVE FilesFrom(_, _, _)
FilesFrom(files, i, text) ==
    IF i > Len(files) \/ FileRaises(files[i]) THEN <<>>
    ELSE IF IsFileEntry(files[i])
    THEN <<FileAttachment(files[i], text)>> \o FilesFrom(files, i + 1, text)
    ELSE FilesFrom(files, i + 1, text)

FileAttachments(candidate, text) ==
    LET files == Idx(candidate, 30) IN
    IF text.k # "string" THEN <<>>
    ELSE IF Truthy(files) /\ IsArray(files) THEN FilesFrom(files.a, 1, text)
    ELSE <<>>

\* code blocks from candidate[14] (lines 355-364)
IsCodeEntry(code) == Truthy(code) /\ Truthy(Idx(code, 1))
CodeBlock(code) ==
    [language |-> Or(Idx(code, 0), JStr("text", 4)), code |-> Idx(code, 1)]
StructuredCodeBlocks(candidate) ==
    LET list == Idx(candidate, 14)
        kept == IF Truthy(list) /\ IsArray(list)
                THEN SelectSeq(list.a, IsCodeEntry) ELSE <<>>
    IN [i \in 1..Len(kept) |-> CodeBlock(kept[i])]

\* code blocks of both sources together
CodeBlocks_Additive(candidate, text) ==
    StructuredCodeBlocks(candidate)
       \o (IF Truthy(text) THEN FencedBlocks(text.s) ELSE <<>>)

\* code blocks (lines 353-379): the fallback runs when nothing was pushed
CodeBlocks(candidate, text) ==
    LET primary == StructuredCodeBlocks(candidate) IN
    IF Len(primary) = 0 /\ Truthy(text) THEN FencedBlocks(text.s)
    ELSE primary

\* code execution result (lines 385-395)
NoExecution == [some |-> FALSE, output |-> JNull, error |-> JNull]
CodeExecutionResult(candidate) ==
    LET r == Idx(candidate, 16) IN
    IF Truthy(r) /\ Truthy(Idx(r, 0))
    THEN [some |-> TRUE, output |-> Idx(r, 0), error |-> Or(Idx(r, 1), JNull)]
    ELSE NoExecution

\* factuality (lines 402-410)
NoFactuality == [some |-> FALSE, rating |-> JNull, confidence |-> JNull]
Factuality(candidate) ==
    LET f == Idx(candidate, 45) IN
    IF Truthy(f)
    THEN [some |-> TRUE, rating |-> Or(Idx(f, 0), JNull),
          confidence |-> Or(Idx(f, 1), JNull)]
    ELSE NoFactuality

\* sources (lines 411-421)
IsSourceEntry(source) == Truthy(source) /\ Truthy(Idx(source, 0))
Source(source) ==
    [title |-> Or(Idx(Idx(source, 0), 0), JStr("", 0)),
     url |-> Or(Idx(Idx(source, 0), 1), JStr("", 0)),
     snippet |-> Or(Idx(Idx(source, 0), 2), JStr("", 0))]
Sources(candidate) ==
    LET list == Idx(candidate, 11)
        kept == IF Truthy(list) /\ IsArray(list)
                THEN SelectSeq(list.a, IsSourceEntry) ELSE <<>>
    IN [i \in 1..Len(kept) |-> Source(kept[i])]

\* web images (lines 430-440), outside any try block
WebImageList(candidate) ==
    And(Idx(candidate, 12), Idx(Idx(candidate, 12), 1))
WebImage(webImage) ==
    [type |-> "web_image",
     url |-> Idx(Idx(Idx(webImage, 0), 0), 0),
     title |-> Idx(Idx(webImage, 7), 0),
     alt |-> Idx(Idx(webImage, 0), 4)]
ImageRaises(image) ==
    image.url.k = "throw" \/ image.title.k = "throw" \/ image.alt.k = "throw"
WebImagesRaise(candidate) ==
    LET list == WebImageList(candidate) IN
    /\ Truthy(list)
    /\ \/ ~Iterable(list)
       \/ \E i \in 1..Length(list) : ImageRaises(WebImage(Elements(list)[i]))
WebImages(candidate) ==
    LET list == WebImageList(candidate) IN
    IF Truthy(list) /\ Iterable(list)
    THEN [i \in 1..Length(list) |-> WebImage(Elements(list)[i])]
    ELSE <<>>

\* generated images (lines 446-460): the loop head is outside the try block,
\* the construction of each image inside it
GeneratedImageList(candidate) ==
    And(Idx(candidate, 12),
        And(Idx(Idx(candidate, 12), 7), Idx(Idx(Idx(candidate, 12), 7), 0)))
GeneratedTitle(genImage) ==
    LET number == Idx(Idx(genImage, 3), 6) IN
    IF Truthy(Idx(genImage, 3)) /\ Truthy(number)
    THEN JStr("Generated Image " \o number.s, 16 + number.n)
    ELSE JStr("Generated Image", 15)
GeneratedAlt(genImage) ==
    LET alt == Idx(Idx(Idx(genImage, 3), 5), 0) IN
    IF Truthy(Idx(genImage, 3)) /\ Truthy(Idx(Idx(genImage, 3), 5))
       /\ Truthy(alt)
    THEN alt ELSE JStr("", 0)
GeneratedImage(genImage) ==
    [type |-> "generated_image",
     url |-> Idx(Idx(Idx(genImage, 0), 3), 3),
     title |-> GeneratedTitle(genImage),
     alt |-> GeneratedAlt(genImage)]
IsWellFormedImage(genImage) == GeneratedImage(genImage).url.k # "throw"
GeneratedImagesRaise(candidate) ==
    LET list == GeneratedImageList(candidate) IN
    Truthy(list) /\ ~Iterable(list)
GeneratedImages(candidate) ==
    LET list == GeneratedImageList(candidate)
        kept == IF Truthy(list) /\ Iterable(list)
                THEN SelectSeq(Elements(list), IsWellFormedImage) ELSE <<>>
    IN [i \in 1..Len(kept) |-> GeneratedImage(kept[i])]

\* one round of the loop over body[4] raises
CandidateRaises(candidate) ==
    \/ CandidateText(candidate).k = "throw"
    \/ WebImagesRaise(candidate)
    \/ GeneratedImagesRaise(candidate)

\* the object pushed for one candidate (lines 465-477)
DecodedCandidate(candidate) ==
    LET text == CandidateText(candidate) IN
    [rcid |-> Idx(candidate, 0),
     text |-> text,
     thoughts |-> Thoughts(candidate),
     webImages |-> WebImages(candidate),
     generatedImages |-> GeneratedImages(candidate),
     images |-> WebImages(candidate) \o GeneratedImages(candidate),
     fileAttachments |-> FileAttachments(candidate, text),
     codeBlocks |-> CodeBlocks(candidate, text),
     codeExecutionResult |-> CodeExecutionResult(candidate),
     factuality |-> Factuality(candidate),
     sources |-> Sources(candidate)]

NoDecoded ==
    [rcid |-> JUndef, text |-> JUndef, thoughts |-> JNull, webImages |-> <<>>,
     generatedImages |-> <<>>, images |-> <<>>, fileAttachments |-> <<>>,
     codeBlocks |-> <<>>, codeExecutionResult |-> NoExecution,
     factuality |-> NoFactuality, sources |-> <<>>]

\* JSON.parse(responseJson[i][2]) inside the try block of the scan
MainPart(element) == JsonParse(Idx(element, 2))

\* the scan looking for the candidate list at index 3
IsBody_Index3(element) == Truthy(Idx(MainPart(element), 3))

\* the element is taken as the body: mainPart[4] is truthy
IsBody(element) == Truthy(Idx(MainPart(element), 4))

\* a scan that gives up at the first element that is not the body
BodyIndexFrom_First(responseJson, i) ==
    IF i < Length(responseJson) /\ IsBody(Idx(responseJson, i)) THEN i ELSE -1

RECURSIVE BodyIndexFrom(_, _)
\* the scan of lines 282-293 from round i on: the index of the element it
\* stops at, or -1
BodyIndexFrom(responseJson, i) ==
    IF i >= Length(responseJson) THEN -1
    ELSE IF IsBody(Idx(responseJson, i)) THEN i
    ELSE BodyIndexFrom(responseJson, i + 1)

\* the fields spread at the top level of the returned object, taken from
\* one decoded candidate (lines 489-499)
TopLevel(first) ==
    [text |-> first.text,
     thoughts |-> first.thoughts,
     images |-> first.images,
     webImages |-> first.webImages,
     generatedImages |-> first.generatedImages,
     fileAttachments |-> first.fileAttachments,
     codeBlocks |-> first.codeBlocks,
     codeExecutionResult |-> first.codeExecutionResult,
     factuality |-> first.factuality,
     sources |-> first.sources,
     rcid |-> first.rcid]

\* what parseResponse leaves: status "ok" with the returned object, or
\* status "error" with the message of the error it rethrows
Outcome(status, message, meta, cands, first) ==
    [status |-> status, message |-> message, metadata |-> meta,
     candidates |-> cands, top |-> first]
NotParsed == Outcome("none", "", JUndef, <<>>, TopLevel(NoDecoded))
ParseFailure(message) ==
    Outcome("error", message, JUndef, <<>>, TopLevel(NoDecoded))

\* a returned object whose top-level fields are those of the last candidate
ParsedResult_Last(body, cands) ==
    Outcome("ok", "", Idx(body, 1), cands, TopLevel(cands[Len(cands)]))

\* the returned object (lines 485-500): the top-level fields are those of
\* candidates[0]
ParsedResult(body, cands) ==
    Outcome("ok", "", Idx(body, 1), cands, TopLevel(cands[1]))

\* parseResponse(responseText)
ParseRaw(text) ==
    LET responseJson == JsonParse(text.third)
        bodyIndex == BodyIndexFrom(responseJson, 0)
        body == MainPart(Idx(responseJson, bodyIndex))
        list == Idx(body, 4)
        cands == [i \in 1..Length(list) |->
                    DecodedCandidate(Idx(list, i - 1))]
    IN
    IF text.lines < 3 THEN ParseFailure("Invalid response format")
    ELSE IF responseJson.k = "throw" THEN ParseFailure("SyntaxError")
    ELSE IF responseJson.k = "null" THEN ParseFailure("TypeError")
    ELSE IF bodyIndex < 0 THEN ParseFailure("No valid response body found")
    ELSE IF \E i \in 1..Length(list) : CandidateRaises(Idx(list, i - 1))
    THEN ParseFailure("TypeError")
    ELSE IF Length(list) = 0
    THEN ParseFailure("No candidates found in response")
    ELSE ParsedResult(body, cands)

\* ------------------------------------------------- response texts (decoder)
\* Candidates as the backend lays them out: the id at index 0, the text at
\* index 1, and the optional fields at their indexes.
Candidate(id, text, len, fields) ==
    Sparse(len, (0 :> JStr(id, 3)) @@ (1 :> JArr(<<text>>)) @@ fields)
Hi == JStr("hi", 2)
Plain(id) == Candidate(id, Hi, 2, <<>>)

\* one web image [[[url], ?, ?, ?, alt], ..., [title]] and one generated
\* image [[?, ?, ?, [?, ?, ?, url]], ?, ?, [..., [alt], number]]
WebEntry ==
    Sparse(8, (0 :> Sparse(5, (0 :> JArr(<<JStr("w.png", 5)>>))
                              @@ (4 :> JStr("alt", 3))))
              @@ (7 :> JArr(<<JStr("Web", 3)>>)))
WebEntryNoTitle ==
    Sparse(1, (0 :> Sparse(5, (0 :> JArr(<<JStr("w.png", 5)>>)))))
GenEntry ==
    Sparse(4, (0 :> Sparse(4, (3 :> Sparse(4, (3 :> JStr("g.png", 5))))))
              @@ (3 :> Sparse(7, (5 :> JArr(<<JStr("drawn", 5)>>))
                                 @@ (6 :> JStr("1", 1)))))
WebField(list) == Sparse(2, (1 :> list))
GenField(list) == Sparse(8, (7 :> JArr(<<list>>)))

FileEntry(name) ==
    JArr(<<name, JStr("id", 2), JStr("Title", 5), JNull, JStr("print(1)", 8)>>)
CodeEntry == JArr(<<JStr("python", 6), JStr("print(1)", 8)>>)
SourceEntry ==
    JArr(<<JArr(<<JStr("T", 1), JStr("U", 1), JStr("S", 1)>>)>>)

\* candidates whose optional fields are absent or well-formed
WellFormedCandidates ==
    { Plain("rcA"),
      Candidate("rcA", JStr(FencedText, 33), 2, <<>>),
      Candidate("rcA", JStr(CardUrl, 43), 23,
                (22 :> JArr(<<JStr("card text", 9)>>))),
      Candidate("rcA", JStr(CardUrl, 43), 2, <<>>),
      Candidate("rcA", JNull, 2, <<>>),
      Candidate("rcA", Hi, 38, (37 :> JArr(<<JArr(<<JStr("why", 3)>>)>>))),
      Candidate("rcA", JStr(ChipText, 55), 31,
                (30 :> JArr(<<FileEntry(JStr("main.py", 7)),
                              FileEntry(JStr("notes.md", 8))>>))),
      Candidate("rcA", Hi, 31, (30 :> JArr(<<FileEntry(JNull)>>))),
      Candidate("rcA", Hi, 15, (14 :> JArr(<<CodeEntry>>))),
      Candidate("rcA", JStr(FencedText, 33), 15, (14 :> JArr(<<CodeEntry>>))),
      Candidate("rcA", JStr(FencedText, 33), 15, (14 :> JArr(<<>>))),
      Candidate("rcA", Hi, 17,
                (16 :> JArr(<<JStr("out", 3), JStr("err", 3)>>))),
      Candidate("rcA", Hi, 17, (16 :> JArr(<<JStr("out", 3)>>))),
      Candidate("rcA", Hi, 46, (45 :> JArr(<<JStr("high", 4), JNum(1)>>))),
      Candidate("rcA", Hi, 12, (11 :> JArr(<<SourceEntry>>))),
      Candidate("rcA", Hi, 13, (12 :> WebField(JArr(<<WebEntry>>)))),
      Candidate("rcA", Hi, 13, (12 :> GenField(JArr(<<GenEntry>>)))),
      Candidate("rcA", Hi, 13,
                (12 :> Sparse(8, (1 :> JArr(<<WebEntry>>))
                                 @@ (7 :> JArr(<<JArr(<<GenEntry>>)>>))))) }

\* candidates with one optional field malformed
MalformedCandidates ==
    { Candidate("rcA", Hi, 38, (37 :> JNum(5))),
      Candidate("rcA", Hi, 38, (37 :> JArr(<<JNull>>))),
      Candidate("rcA", Hi, 31, (30 :> JStr("file", 4))),
      Candidate("rcA", Hi, 31, (30 :> JArr(<<JArr(<<JStr("a", 1)>>), JNull>>))),
      Candidate("rcA", Hi, 31,
                (30 :> JArr(<<FileEntry(JStr("main.py", 7)),
                              FileEntry(JNum(5)),
                              FileEntry(JStr("notes.md", 8))>>))),
      Candidate("rcA", JNull, 31,
                (30 :> JArr(<<FileEntry(JStr("main.py", 7))>>))),
      Candidate("rcA", Hi, 15, (14 :> JNum(7))),
      Candidate("rcA", Hi, 15, (14 :> JArr(<<JNull, JNum(3)>>))),
      Candidate("rcA", JStr(FencedText, 33), 15,
                (14 :> JArr(<<JArr(<<JStr("python", 6)>>)>>))),
      Candidate("rcA", JStr(FencedText, 33), 15,
                (14 :> JArr(<<JNull, CodeEntry>>))),
      Candidate("rcA", Hi, 17, (16 :> JNum(1))),
      Candidate("rcA", Hi, 17, (16 :> JArr(<<JNull, JStr("err", 3)>>))),
      Candidate("rcA", Hi, 46, (45 :> JNum(1))),
      Candidate("rcA", Hi, 46, (45 :> JArr(<<>>))),
      Candidate("rcA", Hi, 12, (11 :> JNum(1))),
      Candidate("rcA", Hi, 12,
                (11 :> JArr(<<JNull, JArr(<<JNull>>), SourceEntry>>))),
      Candidate("rcA", Hi, 13, (12 :> JNum(1))),
      Candidate("rcA", Hi, 13, (12 :> WebField(JArr(<<WebEntryNoTitle>>)))),
      Candidate("rcA", Hi, 13, (12 :> WebField(JArr(<<JNull>>)))),
      Candidate("rcA", Hi, 13, (12 :> WebField(JNum(5)))),
      Candidate("rcA", Hi, 13,
                (12 :> WebField(JArr(<<WebEntry, WebEntryNoTitle>>)))),
      Candidate("rcA", Hi, 13, (12 :> GenField(JNum(5)))),
      Candidate("rcA", Hi, 13, (12 :> GenField(JArr(<<JNull, GenEntry>>)))),
      Candidate("rcA", Hi, 13,
                (12 :> GenField(JArr(<<Sparse(1, (0 :> JArr(<<>>)))>>)))) }

\* entries of a candidate list that are no candidates
BrokenCandidates ==
    { JNull, JArr(<<JStr("rcA", 3)>>), Candidate("rcA", JNum(5), 2, <<>>) }

\* body[1], the metadata of the response
BodyMetas ==
    { JNull, JArr(<<JStr("c1", 2), JStr("r1", 2)>>) }

\* the decoded payload: metadata at index 1, the candidate list at index 4
Body(meta, list) == Sparse(5, (1 :> meta) @@ (4 :> list))

\* an element of the outer array: the payload as JSON text at index 2
Frame(payload) == JArr(<<JStr("wrb.fr", 6), JNull, payload>>)

\* elements the scan passes over: index 2 missing, null, no JSON text, or
\* JSON text of a value without a truthy index 4
SkippedFrames ==
    << JNull,
       JArr(<<JStr("di", 2)>>),
       Frame(JNull),
       Frame(JStr("telemetry", 9)),
       Frame(JText(JNull)),
       Frame(JText(JArr(<<JNull, JNull, JNull, JArr(<<Plain("rcX")>>)>>))),
       Frame(JText(Body(JNull, JNull))) >>

\* a text of three lines with `outer` as JSON text on the third
ThreeLines(outer) == [lines |-> 3, third |-> JText(outer)]
NoRaw == [lines |-> 0, third |-> JUndef]

\* the payload of Scenario A read as written: the candidate list at index 3,
\* one array level deeper
ScenarioAWritten ==
    ThreeLines(JArr(<<JArr(<<JNull, JNull,
        JText(JArr(<<JNull, JNull, JNull,
                     JArr(<<JArr(<<JArr(<<JNum(0), JArr(<<Hi>>)>>)>>)>>)>>))
      >>)>>))

\* the same candidate [0, ["hi"]] in a candidate list at index 4
ScenarioAIndex4 ==
    ThreeLines(JArr(<<JArr(<<JNull, JNull,
        JText(JArr(<<JNull, JNull, JNull, JNull,
                     JArr(<<JArr(<<JNum(0), JArr(<<Hi>>)>>)>>)>>))
      >>)>>))

\* the response texts given to the decoder
RawTexts ==
    { [lines |-> 1, third |-> JUndef],
      [lines |-> 2, third |-> JUndef],
      [lines |-> 3, third |-> JStr("", 0)],
      [lines |-> 3, third |-> JStr("<html>", 6)],
      ThreeLines(JNull), ThreeLines(JNum(7)), ThreeLines(JStr("abc", 3)),
      ThreeLines(JArr(<<>>)),
      ThreeLines(JArr(SkippedFrames)),
      ThreeLines(JArr(<<Frame(JText(JStr("hello", 5)))>>)),
      ThreeLines(JArr(<<Frame(JText(Body(JNull, JNum(5))))>>)),
      ThreeLines(JArr(<<Frame(JText(Body(JNull, JStr("x", 1))))>>)),
      ScenarioAWritten, ScenarioAIndex4 }
    \cup { ThreeLines(JArr(<<Frame(JText(Body(m, JArr(<<c>>))))>>)) :
              m \in BodyMetas,
              c \in WellFormedCandidates \cup MalformedCandidates
                    \cup BrokenCandidates }
    \cup { ThreeLines(JArr(SkippedFrames \o
                           <<Frame(JText(Body(JNull, JArr(<<c>>)))),
                             Frame(JText(Body(JNull, JArr(<<Plain("rcZ")>>))))
                           >>)) :
              c \in {Plain("rcA"), JNull} }
    \cup { ThreeLines(JArr(<<Frame(JText(Body(JNull, JArr(<<>>)))),
                             Frame(JText(Body(JNull, JArr(<<Plain("rcA")>>))))
                           >>)) }
    \cup { ThreeLines(JArr(<<Frame(JText(Body(JArr(<<JStr("c1", 2)>>),
                                               JArr(<<c, d>>))))>>)) :
              c \in {Plain("rcA"), Plain("rcB")},
              d \in {Plain("rcB"),
                     Candidate("rcC", Hi, 15, (14 :> JArr(<<CodeEntry>>))),
                     Candidate("rcC", Hi, 13,
                               (12 :> WebField(JArr(<<JNull>>)))),
                     JNull} }

\* ----------------------------------------------------------------- state
VARIABLES
    running,            \* GeminiClient.running
    accessToken,        \* GeminiClient.accessToken
    cookies,            \* GeminiClient.cookies: [psid, psidts, extra]
    autoRefresh,        \* GeminiClient.autoRefresh
    refreshIntervalId,  \* GeminiClient.refreshIntervalId (NoTimer or an id)
    timers,             \* the interval timers that are scheduled (event loop)
    initCall,           \* the init() call in progress: its position and locals
    ticksPending,       \* rotation requests awaiting their response
    flight,             \* generation requests awaiting their response
    cache,              \* the cache file of this identity cookie
    now,                \* Date.now()
    denied,             \* environment: the backend has revoked the credentials
    metadata,           \* ChatSession.metadata, per thread
    lastOutput,         \* ChatSession.lastOutput, per thread
    okTurns,            \* history: the thread has had a turn that returned
    ev,                 \* the outcome of the call or callback that ran last
    responseText,       \* parseResponse: the text it is given
    parsed,             \* parseResponse: what it returned or raised
    geminiClient,       \* server.js: the global client (NoClient: null)
    boot,               \* server.js: the initialization at load / cold start
    clients,            \* server.js: the GeminiClient objects it created
    chatSessions,       \* server.js: the registry chatId -> session data
    requests,           \* server.js: the request handlers at an await
    ended,              \* history: the chat ids a DELETE has removed
    sev                 \* the outcome of the handler step that ran last

vars == <<running, accessToken, cookies, autoRefresh, refreshIntervalId,
          timers, initCall, ticksPending, flight, cache, now, denied,
          metadata, lastOutput, okTurns, ev, responseText, parsed,
          geminiClient, boot, clients, chatSessions, requests, ended, sev>>

clientVars == <<running, accessToken, cookies, autoRefresh, refreshIntervalId,
                timers, initCall, ticksPending, flight, cache, now, denied,
                metadata, lastOutput, okTurns, ev, responseText, parsed>>
serverVars == <<geminiClient, boot, clients, chatSessions, requests, ended,
                sev>>

decodeVars == <<responseText, parsed>>
sessionVars == <<running, accessToken, cookies, autoRefresh,
                 refreshIntervalId, timers>>
threadVars == <<metadata, lastOutput, okTurns>>

Slots == 1..MaxFlight
IdleReq == [busy |-> FALSE, chat |-> NoChat, ptr |-> NullPtr, hasPtr |-> FALSE,
            cookie |-> [psid |-> Absent, psidts |-> Absent, extra |-> Absent],
            at |-> Null]
IdleInit == [phase |-> "idle", extra |-> Absent]
NoOutput == [some |-> FALSE, cands |-> <<>>]
NoCache == [exists |-> FALSE, value |-> "", mtime |-> 0]
NoValue == [some |-> FALSE, metadata |-> NullPtr, cands |-> <<>>,
            top |-> NoCand]

\* ev: op = the operation, chat = the thread it was given, out = how it ended,
\* status = the HTTP status it received (-1: it received none), sent = whether
\* it issued a network request, val = the GenerationResult it returned.
Event(op, chat, out, status, sent, val) ==
    [op |-> op, chat |-> chat, out |-> out, status |-> status, sent |-> sent,
     val |-> val]

\* The server's view of a GeminiClient object: state is "none" (not created),
\* "new" (constructed, init not completed), "running" or "closed"; timer is
\* whether its rotation timer is scheduled.
ClientIds == 1..MaxClients
ChatIds == 1..MaxChats
ReqIds == 1..MaxRequests
NoObject == [state |-> "none", timer |-> FALSE]
\* an entry of chatSessions: chat is the client the ChatSession belongs to
NoSession == [has |-> FALSE, chat |-> NoClient, client |-> NoClient,
              isUserClient |-> FALSE]
IdleRequest == [kind |-> "none", pc |-> "idle", chat |-> NoChat,
                client |-> NoClient, temp |-> FALSE]

\* sev: kind = the handler, chat = the chat id of the request, status = the
\* HTTP status it answered (0: none yet), handed = the client
\* getClientInstance returned in this step (NoClient: it returned none),
\* state = that client's state at that moment, temp = isTemporary
ServerEvent(kind, chat, status, handed, state, temp) ==
    [kind |-> kind, chat |-> chat, status |-> status, handed |-> handed,
     state |-> state, temp |-> temp]

\* server.js loaded: no global client, an empty registry; env tells whether
\* process.env.SECURE_1PSID is set
ServerLoaded(env) ==
    /\ geminiClient = NoClient
    /\ boot = [phase |-> "load", env |-> env, client |-> NoClient]
    /\ clients = [c \in ClientIds |-> NoObject]
    /\ chatSessions = [id \in ChatIds |-> NoSession]
    /\ requests = [r \in ReqIds |-> IdleRequest]
    /\ ended = {}
    /\ sev = ServerEvent("load", NoChat, 0, NoClient, "none", FALSE)

\* the constructor's cookie object: the secondary cookie is stored only
\* together with the identity cookie
ConstructedCookies(psid, ts) ==
    [psid |-> psid, psidts |-> IF psid # Absent THEN ts ELSE Absent,
     extra |-> Absent]

\* new GeminiClient(secure1PSID, secure1PSIDTS) and client.startChat()
ConstructedFor(psid, ts, slots) ==
    /\ running = FALSE
    /\ accessToken = Null
    /\ cookies = ConstructedCookies(psid, ts)
    /\ autoRefresh = TRUE
    /\ refreshIntervalId = NoTimer
    /\ timers = {}
    /\ initCall = IdleInit
    /\ ticksPending = 0
    /\ flight = [s \in slots |-> IdleReq]
    /\ cache = NoCache
    /\ now = 0
    /\ denied = FALSE
    /\ metadata = [t \in Threads |-> Arr(<<Null, Null, Null>>)]
    /\ lastOutput = [t \in Threads |-> NoOutput]
    /\ okTurns = [t \in Threads |-> FALSE]
    /\ ev = Event("new", NoChat, "ok", -1, FALSE, NoValue)

Constructed(psid, ts) == ConstructedFor(psid, ts, Slots)

\* a client constructed with its identity cookie
Init ==
    /\ \E ts \in SeedPSIDTS : Constructed("sid", ts)
    /\ responseText = NoRaw
    /\ parsed = NotParsed
    /\ ServerLoaded(FALSE)

\* ------------------------------------------------------- GeminiClient.close
\* a handle dropped without clearInterval
ClosedTimers_Keep == timers

\* clearInterval(this.refreshIntervalId) when the handle is set
ClosedTimers ==
    IF refreshIntervalId # NoTimer THEN timers \ {refreshIntervalId} ELSE timers

\* async close(): running = false; cancel the interval and forget the handle
CloseEffect ==
    /\ running' = FALSE
    /\ timers' = ClosedTimers
    /\ refreshIntervalId' = NoTimer

\* a close() that aborts the generation requests in flight
Close_AbortsFlight ==
    /\ CloseEffect
    /\ flight' = [s \in Slots |-> IdleReq]
    /\ ev' = Event("close", NoChat, "ok", -1, FALSE, NoValue)
    /\ UNCHANGED <<accessToken, cookies, autoRefresh, initCall, ticksPending,
                   cache, now, denied, decodeVars, serverVars, threadVars>>

Close ==
    /\ CloseEffect
    /\ ev' = Event("close", NoChat, "ok", -1, FALSE, NoValue)
    /\ UNCHANGED <<accessToken, cookies, autoRefresh, initCall, ticksPending,
                   flight, cache, now, denied, decodeVars, serverVars, threadVars>>

\* ------------------------------------------- GeminiClient.startAutoRefresh
\* The handle setInterval returns: a timer distinct from every scheduled one.
FreshTimer(active) == CHOOSE id \in TimerIds \ active : TRUE

\* startAutoRefresh(): clear the interval the handle refers to, schedule a new one
StartAutoRefreshEffect ==
    LET kept == ClosedTimers
        id == FreshTimer(kept)
    IN /\ timers' = kept \cup {id}
       /\ refreshIntervalId' = id

\* client.startAutoRefresh() called by the application
StartAutoRefresh ==
    /\ StartAutoRefreshEffect
    /\ ev' = Event("startAutoRefresh", NoChat, "ok", -1, FALSE, NoValue)
    /\ UNCHANGED <<running, accessToken, cookies, autoRefresh, initCall,
                   ticksPending, flight, cache, now, denied, decodeVars, serverVars,
                   threadVars>>

\* --------------------------------------- GeminiClient.init / getAccessToken
\* getAccessToken, before its first await: load the cached __Secure-1PSIDTS
\* into the caller's cookie object when the caller supplied none.
CookiesAfterCacheLoad ==
    IF /\ cookies.psid # Absent
       /\ cookies.psidts = Absent
       /\ cache.exists
       /\ cache.value # ""
    THEN [cookies EXCEPT !.psidts = cache.value]
    ELSE cookies

\* init(options), up to the request to the landing page
InitStart(ar) ==
    /\ initCall.phase = "idle"
    /\ autoRefresh' = ar
    /\ cookies' = CookiesAfterCacheLoad
    /\ initCall' = [phase |-> "google", extra |-> Absent]
    /\ ev' = Event("init", NoChat, "pending", -1, TRUE, NoValue)
    /\ UNCHANGED <<running, accessToken, refreshIntervalId, timers,
                   ticksPending, flight, cache, now, denied, decodeVars, serverVars, threadVars>>

\* a catch block that rethrows without calling close()
InitFail_NoClose(kind, status) ==
    /\ initCall' = IdleInit
    /\ ev' = Event("init", NoChat, kind, status, TRUE, NoValue)
    /\ UNCHANGED <<running, timers, refreshIntervalId, accessToken, cookies,
                   autoRefresh, ticksPending, flight, cache, now, denied, decodeVars, serverVars,
                   threadVars>>

\* init's catch block: await this.close(); throw
InitFail(kind, status) ==
    /\ CloseEffect
    /\ initCall' = IdleInit
    /\ ev' = Event("init", NoChat, kind, status, TRUE, NoValue)
    /\ UNCHANGED <<accessToken, cookies, autoRefresh, ticksPending, flight,
                   cache, now, denied, decodeVars, serverVars, threadVars>>

\* getAccessToken's catch block: which error leaves it for a failed request
AccessTokenError(status) == IF status \in AuthDenied THEN "E_AUTH" ELSE "E_HTTP"

\* the landing page answered: harvest its cookies and request the app page
InitGoogleResp(status, extra) ==
    /\ initCall.phase = "google"
    /\ IF status = 200
       THEN /\ initCall' = [phase |-> "app", extra |-> extra]
            /\ ev' = Event("init", NoChat, "pending", status, TRUE, NoValue)
            /\ UNCHANGED <<sessionVars, ticksPending, flight, cache, now,
                           denied, decodeVars, serverVars, threadVars>>
       ELSE /\ extra = Absent
            /\ InitFail(AccessTokenError(status), status)

\* { ...extraCookies, ...cookies }: the caller's cookies win over harvested ones
MergedCookies(extra) ==
    [cookies EXCEPT !.extra = IF cookies.extra # Absent THEN cookies.extra
                              ELSE extra]

\* getAccessToken accepting an empty capture as the token
AppPageOutcome_NoEmptyCheck(status, marker) ==
    IF status >= 500 THEN AccessTokenError(status)
    ELSE IF status # 200 THEN "E_STATUS"
    ELSE IF marker = Absent THEN "E_MARKER"
    ELSE "ok"

\* how getAccessToken ends for the app page's answer (!match || !match[1])
AppPageOutcome(status, marker) ==
    IF status >= 500 THEN AccessTokenError(status)
    ELSE IF status # 200 THEN "E_STATUS"
    ELSE IF marker = Absent \/ marker = "" THEN "E_MARKER"
    ELSE "ok"

\* the app page answered: extract the token, store it, start the rotation
InitAppResp(status, marker) ==
    /\ initCall.phase = "app"
    /\ IF AppPageOutcome(status, marker) = "ok"
       THEN /\ accessToken' = marker
            /\ cookies' = MergedCookies(initCall.extra)
            /\ running' = TRUE
            /\ IF autoRefresh THEN StartAutoRefreshEffect
               ELSE UNCHANGED <<timers, refreshIntervalId>>
            /\ initCall' = IdleInit
            /\ ev' = Event("init", NoChat, "ok", status, TRUE, NoValue)
            /\ UNCHANGED <<autoRefresh, ticksPending, flight, cache, now,
                           denied, decodeVars, serverVars, threadVars>>
       ELSE InitFail(AppPageOutcome(status, marker), status)

\* ------------------------------ rotation tick: setInterval callback + rotate1PSIDTS
\* the window compared in seconds against a difference in milliseconds
Debounced_Seconds == cache.exists /\ now - cache.mtime <= DebounceMs \div 1000

\* rotate1PSIDTS: the cache file exists and was modified at most 60 s ago
Debounced == cache.exists /\ now - cache.mtime <= DebounceMs

\* The interval fires.  rotate1PSIDTS runs up to its request: inside the
\* debounce window it returns null at once, otherwise it posts the cookies.
TickStart ==
    /\ timers # {}
    /\ IF Debounced
       THEN /\ ev' = Event("tick", NoChat, "noop-debounce", -1, FALSE, NoValue)
            /\ UNCHANGED ticksPending
       ELSE /\ ticksPending < MaxTicksPending
            /\ ticksPending' = ticksPending + 1
            /\ ev' = Event("tick", NoChat, "pending", -1, TRUE, NoValue)
    /\ UNCHANGED <<sessionVars, initCall, flight, cache, now, denied, decodeVars, serverVars,
                   threadVars>>

\* rotate1PSIDTS without its check of status 401
RotateOutcome_No401(status, newTs) ==
    IF status = 0 \/ status >= 500 THEN "E_HTTP"
    ELSE IF newTs # Absent THEN "rotated"
    ELSE "noop"

\* rotate1PSIDTS throwing when the answer holds no replacement cookie
RotateOutcome_MissingIsError(status, newTs) ==
    IF status = 0 \/ status >= 500 THEN "E_HTTP"
    ELSE IF status \in AuthDeniedRotate THEN "E_AUTH"
    ELSE IF newTs # Absent THEN "rotated"
    ELSE "E_HTTP"

\* how rotate1PSIDTS ends for the rotation endpoint's answer
RotateOutcome(status, newTs) ==
    IF status = 0 \/ status >= 500 THEN "E_HTTP"
    ELSE IF status \in AuthDeniedRotate THEN "E_AUTH"
    ELSE IF newTs # Absent THEN "rotated"
    ELSE "noop"

\* a catch block that cancels the interval / stops the client
TimersAfterFailedTick_Cleared == {}
RunningAfterFailedTick_Stops == FALSE

\* The tick callback's catch block only logs: a tick that threw leaves the
\* schedule and the lifecycle state as they are.
TimersAfterFailedTick == timers
RunningAfterFailedTick == running

\* fs.writeFileSync(cachePath, new1PSIDTS): the value, and the file's mtime
CacheAfterRotation(newTs) == [exists |-> TRUE, value |-> newTs, mtime |-> now]

\* the bag replaced by the identity cookie and the new value
CookiesAfterRotation_Replace(newTs) ==
    [psid |-> cookies.psid, psidts |-> newTs, extra |-> Absent]

\* this.cookies['__Secure-1PSIDTS'] = new1PSIDTS
CookiesAfterRotation(newTs) == [cookies EXCEPT !.psidts = newTs]

\* requests whose Cookie header would be read from this.cookies when sent
FlightAfterRotation_Live(newTs) ==
    [s \in Slots |->
        IF flight[s].busy THEN [flight[s] EXCEPT !.cookie.psidts = newTs]
        ELSE flight[s]]

\* the requests in flight hold their Cookie header as a string built before
\* the await: assigning this.cookies[...] does not reach them
FlightAfterRotation(newTs) == flight

\* The rotation endpoint answered.  A replacement cookie is written to the
\* cache file and to this.cookies; an error is caught and logged by the tick.
TickResp(status, newTs) ==
    LET out == RotateOutcome(status, newTs)
        failed == out \in {"E_HTTP", "E_AUTH"}
    IN
    /\ ticksPending > 0
    /\ denied => status \in AuthDeniedRotate
    /\ ticksPending' = ticksPending - 1
    /\ ev' = Event("tick", NoChat, out, status, TRUE, NoValue)
    /\ cache' = IF out = "rotated" THEN CacheAfterRotation(newTs) ELSE cache
    /\ cookies' = IF out = "rotated" THEN CookiesAfterRotation(newTs)
                  ELSE cookies
    /\ timers' = IF failed THEN TimersAfterFailedTick ELSE timers
    /\ running' = IF failed THEN RunningAfterFailedTick ELSE running
    /\ flight' = IF out = "rotated" THEN FlightAfterRotation(newTs) ELSE flight
    /\ UNCHANGED <<accessToken, autoRefresh, refreshIntervalId, initCall,
                   now, denied, decodeVars, serverVars, threadVars>>

\* ------------------------------------------------------------- environment
AdvanceClock ==
    /\ now + ClockStep <= MaxNow
    /\ now' = now + ClockStep
    /\ ev' = Event("clock", NoChat, "ok", -1, FALSE, NoValue)
    /\ UNCHANGED <<sessionVars, initCall, ticksPending, flight, cache, denied, decodeVars, serverVars,
                   threadVars>>

\* the account's session is revoked: from now on the backend denies it
Revoke ==
    /\ ~denied
    /\ denied' = TRUE
    /\ ev' = Event("revoke", NoChat, "ok", -1, FALSE, NoValue)
    /\ UNCHANGED <<sessionVars, initCall, ticksPending, flight, cache, now,
                   threadVars, decodeVars, serverVars>>

\* ------------------------------------------- GeminiClient.generateContent
\* String.prototype.trim on the prompts used here
Trim(p) == IF p = " " THEN "" ELSE p

\* the check without the trim
PromptRejected_NoTrim(p) == p \in {Undef, ""}

\* !prompt || prompt.trim() === ''
PromptRejected(p) == p \in {Undef, ""} \/ Trim(p) = ""

\* the readiness check taken from the token instead of the running flag
NotInitialized_ByToken == accessToken = Null

\* !this.running
NotInitialized == ~running

\* the envelope without the thread's pointer
EnvelopePointer_Fresh(t) == NullPtr

\* the third element of the inner envelope: chat ? chat.metadata : null
EnvelopePointer(t) ==
    IF t = NoChat THEN NullPtr ELSE JsonPointer(metadata[t])

\* the request as axios receives it: envelope, token and Cookie header are
\* strings built before the await
BuiltRequest(t) ==
    [busy |-> TRUE, chat |-> t, ptr |-> EnvelopePointer(t),
     hasPtr |-> (t # NoChat), cookie |-> cookies, at |-> accessToken]

FreeSlot == CHOOSE s \in DOMAIN flight : ~flight[s].busy /\
                                 \A r \in DOMAIN flight : r < s => flight[r].busy

\* generateContent(prompt, {chat}) up to `await axios(config)`
GenStart(t, p) ==
    /\ IF PromptRejected(p)
       THEN /\ ev' = Event("generate", t, "E_PROMPT", -1, FALSE, NoValue)
            /\ UNCHANGED flight
       ELSE IF NotInitialized
       THEN /\ ev' = Event("generate", t, "E_NOTINIT", -1, FALSE, NoValue)
            /\ UNCHANGED flight
       ELSE /\ \E s \in DOMAIN flight : ~flight[s].busy
            /\ flight' = [flight EXCEPT ![FreeSlot] = BuiltRequest(t)]
            /\ ev' = Event("generate", t, "pending", -1, TRUE, NoValue)
    /\ UNCHANGED <<sessionVars, initCall, ticksPending, cache, now, denied, decodeVars, serverVars,
                   threadVars>>

\* a decoder that reads the last line of the text, however many there are
ParseOk_AnyLines(text) == text.hasBody /\ Len(text.cands) > 0

\* parseResponse: fewer than 3 lines, no body with a truthy index 4, or an
\* empty candidate list throw; otherwise the result mirrors candidates[0]
ParseOk(text) == text.lines >= 3 /\ text.hasBody /\ Len(text.cands) > 0

ParseResponse(text) ==
    [some |-> TRUE, metadata |-> text.meta, cands |-> text.cands,
     top |-> text.cands[1]]

\* the turn's update without the assignment to chat.rcid
TurnPointer_NoRcid(output) == Arr(output.metadata.slots)

\* a pointer update that takes the conversation and response slots from the
\* response and leaves the candidate slot as it was
TurnPointer_StaleCandidate(output) ==
    Arr(SetIndex(output.metadata.slots, PointerSlots,
                 GetIndex(metadata[1].slots, PointerSlots)))

\* chat.metadata = output.metadata; chat.rcid = output.rcid
TurnPointer(output) ==
    Arr(SetIndex(output.metadata.slots, PointerSlots, output.top.rcid))

\* the catch block recognising 401 only
GenOutcome_Only401(t, status, text) ==
    IF status = 0 THEN "E_TIMEOUT"
    ELSE IF status = 401 THEN "E_AUTH"
    ELSE IF status >= 300 THEN "E_HTTP"
    ELSE IF status # 200 THEN "E_STATUS"
    ELSE IF ~ParseOk(text) THEN "E_PARSE"
    ELSE IF t # NoChat /\ ~text.meta.arr THEN "E_TYPE"
    ELSE "ok"

\* how generateContent ends for the backend's answer
GenOutcome(t, status, text) ==
    IF status = 0 THEN "E_TIMEOUT"
    ELSE IF status \in AuthDenied THEN "E_AUTH"
    ELSE IF status >= 300 THEN "E_HTTP"
    ELSE IF status # 200 THEN "E_STATUS"
    ELSE IF ~ParseOk(text) THEN "E_PARSE"
    ELSE IF t # NoChat /\ ~text.meta.arr THEN "E_TYPE"
    ELSE "ok"

\* a pointer and lastOutput kept once per client instead of once per thread
ThreadAfterTurn_Shared(t, output) ==
    /\ lastOutput' = [u \in Threads |->
                         [some |-> TRUE, cands |-> output.cands]]
    /\ metadata' = [u \in Threads |->
                         IF output.metadata.arr
                         THEN Arr(SetIndex(output.metadata.slots, PointerSlots,
                                           output.top.rcid))
                         ELSE NullPtr]
    /\ okTurns' = [okTurns EXCEPT ![t] = @ \/ output.metadata.arr]

\* the thread after lines 198-202 ran for `output` (the setter of rcid throws
\* on a metadata value that is no object, after the two assignments before it)
ThreadAfterTurn(t, output) ==
    /\ lastOutput' = [lastOutput EXCEPT ![t] =
                         [some |-> TRUE, cands |-> output.cands]]
    /\ metadata' = [metadata EXCEPT ![t] =
                         IF output.metadata.arr THEN TurnPointer(output)
                         ELSE NullPtr]
    /\ okTurns' = [okTurns EXCEPT ![t] = @ \/ output.metadata.arr]

\* the value generateContent returns: with a chat, output.metadata is the
\* array the thread now holds as its pointer
Returned(t, output) ==
    IF t = NoChat THEN output
    ELSE [output EXCEPT !.metadata = TurnPointer(output)]

\* generateContent from the response on: status check, parseResponse, the
\* update of the chat, and the catch block
GenResp(s, status, text) ==
    LET t == flight[s].chat
        out == GenOutcome(t, status, text)
    IN
    /\ flight[s].busy
    /\ status = 200 <=> text # NoText
    /\ flight' = [flight EXCEPT ![s] = IdleReq]
    /\ ev' = Event("generate", t, out, status, TRUE,
                   IF out = "ok" THEN Returned(t, ParseResponse(text))
                   ELSE NoValue)
    /\ IF out \in {"ok", "E_TYPE"} /\ t # NoChat
       THEN ThreadAfterTurn(t, ParseResponse(text))
       ELSE UNCHANGED threadVars
    /\ IF out = "E_AUTH"
       THEN CloseEffect
       ELSE UNCHANGED <<running, timers, refreshIntervalId>>
    /\ UNCHANGED <<accessToken, cookies, autoRefresh, initCall, ticksPending,
                   cache, now, denied, decodeVars, serverVars>>

\* ------------------------------------------------------------- ChatSession
\* ChatSession.lastOutput as an object: its metadata field is the very array
\* the thread holds as chat.metadata (line 200 assigns the reference)
LastOutputValue(t) ==
    [some |-> lastOutput[t].some, metadata |-> metadata[t],
     cands |-> lastOutput[t].cands,
     top |-> IF lastOutput[t].some THEN lastOutput[t].cands[1] ELSE NoCand]

\* how setMetadata(T) ends on pointer p
SetMetadataOutcome(p, T) ==
    IF Len(T) > PointerSlots THEN "E_LEN"
    ELSE IF Len(T) > 0 /\ ~p.arr THEN "E_TYPE"
    ELSE "ok"

RECURSIVE Overwrite(_, _, _)
\* for (i = 0; i < T.length; i++) this.metadata[i] = T[i], from index i on
Overwrite(s, T, i) ==
    IF i > Len(T) THEN s ELSE Overwrite(SetIndex(s, i, T[i]), T, i + 1)

\* the pointer setMetadata(T) leaves
SetMetadataPointer(p, T) ==
    IF SetMetadataOutcome(p, T) = "ok" /\ p.arr
    THEN Arr(Overwrite(p.slots, T, 1))
    ELSE p

SetMetadata(t, T) ==
    /\ metadata' = [metadata EXCEPT ![t] = SetMetadataPointer(metadata[t], T)]
    /\ ev' = Event("setMetadata", t, SetMetadataOutcome(metadata[t], T), -1,
                   FALSE, NoValue)
    /\ UNCHANGED <<sessionVars, initCall, ticksPending, flight, cache, now,
                   denied, decodeVars, serverVars, lastOutput, okTurns>>

\* set cid / set rid / set rcid: this.metadata[i] = value
SetSlot(t, i, v) ==
    /\ IF metadata[t].arr
       THEN /\ metadata' = [metadata EXCEPT ![t] =
                               Arr(SetIndex(metadata[t].slots, i, v))]
            /\ ev' = Event("setSlot", t, "ok", -1, FALSE, NoValue)
       ELSE /\ UNCHANGED metadata
            /\ ev' = Event("setSlot", t, "E_TYPE", -1, FALSE, NoValue)
    /\ UNCHANGED <<sessionVars, initCall, ticksPending, flight, cache, now,
                   denied, decodeVars, serverVars, lastOutput, okTurns>>

\* how chooseCandidate(index) ends
ChooseOutcome(t, index) ==
    IF ~lastOutput[t].some THEN "E_NOOUTPUT"
    ELSE IF index >= Len(lastOutput[t].cands) THEN "E_INDEX"
    ELSE IF index < 0 THEN "E_TYPE"
    ELSE IF ~metadata[t].arr THEN "E_TYPE"
    ELSE "ok"

ChooseCandidate(t, index) ==
    LET out == ChooseOutcome(t, index)
        chosen == lastOutput[t].cands[index + 1]
        ptr == Arr(SetIndex(metadata[t].slots, PointerSlots, chosen.rcid))
    IN
    /\ IF out = "ok"
       THEN /\ metadata' = [metadata EXCEPT ![t] = ptr]
            /\ ev' = Event("chooseCandidate", t, "ok", -1, FALSE,
                           [some |-> TRUE, metadata |-> ptr,
                            cands |-> lastOutput[t].cands, top |-> chosen])
       ELSE /\ UNCHANGED metadata
            /\ ev' = Event("chooseCandidate", t, out, -1, FALSE, NoValue)
    /\ UNCHANGED <<sessionVars, initCall, ticksPending, flight, cache, now,
                   denied, decodeVars, serverVars, lastOutput, okTurns>>

\* the decoder applied to the response text at hand
Decode ==
    /\ parsed = NotParsed
    /\ parsed' = ParseRaw(responseText)
    /\ UNCHANGED <<sessionVars, initCall, ticksPending, flight, cache, now,
                   denied, threadVars, ev, responseText, serverVars>>

\* -------------------------------------------------------------- server.js
\* new GeminiClient(...): the next object not yet created
HasNewClient == \E c \in ClientIds : clients[c].state = "none"
NewClient ==
    CHOOSE c \in ClientIds :
        /\ clients[c].state = "none"
        /\ \A d \in ClientIds : d < c => clients[d].state # "none"

\* `chat_${Date.now()}_${random}`: an id no chat has had
FreeChats == { id \in ChatIds : ~chatSessions[id].has /\ id \notin ended }
NewChat == CHOOSE id \in FreeChats : \A other \in FreeChats : id <= other

\* the client objects after new GeminiClient(), after init() succeeded
\* (running = true, startAutoRefresh() when autoRefresh), and after close()
\* or a failed init (running = false, timer cleared)
Made(cl, c) == [cl EXCEPT ![c] = [state |-> "new", timer |-> FALSE]]
Inited(cl, c, auto) == [cl EXCEPT ![c] = [state |-> "running", timer |-> auto]]
Closed(cl, c) == [cl EXCEPT ![c] = [state |-> "closed", timer |-> FALSE]]

\* a getClientInstance that initializes a global client on every call
NeedsLazyInit_Always == TRUE

\* getClientInstance: if (!geminiClient)
NeedsLazyInit == geminiClient = NoClient

\* chatSessions.set: client: isTemporary ? client : null
StoredClient(c, tmp) == IF tmp THEN c ELSE NoClient

\* DELETE: if (sessionData.client && sessionData.isUserClient)
ClosesClient(sd) == sd.client # NoClient /\ sd.isUserClient

\* a DELETE that answers without removing the chat from the registry
SessionsAfterDelete_Keep(id) == chatSessions

\* chatSessions.delete(chatId)
SessionsAfterDelete(id) == [chatSessions EXCEPT ![id] = NoSession]

\* a handler answers with `status` and ends
Answer(r, kind, id, status) ==
    /\ requests' = [requests EXCEPT ![r] = IdleRequest]
    /\ sev' = ServerEvent(kind, id, status, NoClient, "none", FALSE)

\* The handler of request r continues with the client c that
\* getClientInstance returned, cl being the client objects at that moment.
\* /api/chat/start registers a new chat and answers 200; /api/generate calls
\* client.generateContent, which throws on a client that is not running
\* (answer 500, a temporary client is closed in `finally`) and otherwise
\* awaits the backend.
Serve(r, kind, c, tmp, cl) ==
    IF kind = "start"
    THEN /\ chatSessions' = [chatSessions EXCEPT ![NewChat] =
                                [has |-> TRUE, chat |-> c,
                                 client |-> StoredClient(c, tmp),
                                 isUserClient |-> tmp]]
         /\ clients' = cl
         /\ requests' = [requests EXCEPT ![r] = IdleRequest]
         /\ sev' = ServerEvent("start", NewChat, 200, c, cl[c].state, tmp)
    ELSE IF cl[c].state # "running"
    THEN /\ clients' = IF tmp THEN Closed(cl, c) ELSE cl
         /\ requests' = [requests EXCEPT ![r] = IdleRequest]
         /\ sev' = ServerEvent(kind, NoChat, 500, c, cl[c].state, tmp)
         /\ UNCHANGED chatSessions
    ELSE /\ clients' = cl
         /\ requests' = [requests EXCEPT ![r] =
                            [kind |-> kind, pc |-> "generating",
                             chat |-> NoChat, client |-> c, temp |-> tmp]]
         /\ sev' = ServerEvent(kind, NoChat, 0, c, cl[c].state, tmp)
         /\ UNCHANGED chatSessions

\* initializeClient() at load (startServer / initForVercel), up to
\* `await geminiClient.init(...)`: without SECURE_1PSID it returns at once
Startup ==
    /\ boot.phase = "load"
    /\ IF boot.env
       THEN /\ geminiClient' = NewClient
            /\ clients' = Made(clients, NewClient)
            /\ boot' = [boot EXCEPT !.phase = "init", !.client = NewClient]
       ELSE /\ boot' = [boot EXCEPT !.phase = "done"]
            /\ UNCHANGED <<geminiClient, clients>>
    /\ sev' = ServerEvent("boot", NoChat, 0, NoClient, "none", FALSE)
    /\ UNCHANGED <<chatSessions, requests, ended, clientVars>>

\* the init of the client created at load completes: on failure the catch
\* block resets geminiClient to null (init has closed the client)
StartupDone(ok) ==
    /\ boot.phase = "init"
    /\ boot' = [boot EXCEPT !.phase = "done"]
    /\ IF ok
       THEN /\ clients' = Inited(clients, boot.client, TRUE)
            /\ UNCHANGED geminiClient
       ELSE /\ clients' = Closed(clients, boot.client)
            /\ geminiClient' = NoClient
    /\ sev' = ServerEvent("boot", NoChat, 0, NoClient, "none", FALSE)
    /\ UNCHANGED <<chatSessions, requests, ended, clientVars>>

\* getClientInstance(cookies) up to its first await, or to its return when
\* it awaits nothing: a temporary client for the cookies of the request,
\* the lazy initialization of the global client, or the global client
GetClientInstance(r, kind, withCookies) ==
    IF withCookies
    THEN /\ HasNewClient
         /\ clients' = Made(clients, NewClient)
         /\ requests' = [requests EXCEPT ![r] =
                            [kind |-> kind, pc |-> "userinit", chat |-> NoChat,
                             client |-> NewClient, temp |-> TRUE]]
         /\ sev' = ServerEvent(kind, NoChat, 0, NoClient, "none", FALSE)
         /\ UNCHANGED <<geminiClient, chatSessions>>
    ELSE IF NeedsLazyInit
    THEN IF boot.env
         THEN /\ HasNewClient
              /\ geminiClient' = NewClient
              /\ clients' = Made(clients, NewClient)
              /\ requests' = [requests EXCEPT ![r] =
                                 [kind |-> kind, pc |-> "lazyinit",
                                  chat |-> NoChat, client |-> NewClient,
                                  temp |-> FALSE]]
              /\ sev' = ServerEvent(kind, NoChat, 0, NoClient, "none", FALSE)
              /\ UNCHANGED chatSessions
         ELSE /\ Answer(r, kind, NoChat, 500)
              /\ UNCHANGED <<geminiClient, clients, chatSessions>>
    ELSE /\ Serve(r, kind, geminiClient, FALSE, clients)
         /\ UNCHANGED geminiClient

\* POST /api/generate arrives
Generate(r, withCookies, hasPrompt) ==
    /\ boot.phase # "load"
    /\ requests[r].pc = "idle"
    /\ IF hasPrompt
       THEN GetClientInstance(r, "generate", withCookies)
       ELSE /\ Answer(r, "generate", NoChat, 400)
            /\ UNCHANGED <<geminiClient, clients, chatSessions>>
    /\ UNCHANGED <<boot, ended, clientVars>>

\* POST /api/chat/start arrives
ChatStart(r, withCookies) ==
    /\ boot.phase # "load"
    /\ requests[r].pc = "idle"
    /\ Cardinality(FreeChats) >
          Cardinality({q \in ReqIds : requests[q].kind = "start"})
    /\ GetClientInstance(r, "start", withCookies)
    /\ UNCHANGED <<boot, ended, clientVars>>

\* createUserClient's init completes: the handler continues with the
\* temporary client, or answers 500 when init threw
UserInitDone(r, ok) ==
    LET c == requests[r].client IN
    /\ requests[r].pc = "userinit"
    /\ IF ok
       THEN Serve(r, requests[r].kind, c, TRUE, Inited(clients, c, FALSE))
       ELSE /\ clients' = Closed(clients, c)
            /\ Answer(r, requests[r].kind, NoChat, 500)
            /\ UNCHANGED chatSessions
    /\ UNCHANGED <<geminiClient, boot, ended, clientVars>>

\* the lazy initializeClient() completes: on failure geminiClient is reset
\* to null; getClientInstance throws when geminiClient is null and returns
\* geminiClient otherwise
LazyInitDone(r, ok) ==
    LET c == requests[r].client IN
    /\ requests[r].pc = "lazyinit"
    /\ IF ok
       THEN /\ UNCHANGED geminiClient
            /\ IF geminiClient = NoClient
               THEN /\ clients' = Inited(clients, c, TRUE)
                    /\ Answer(r, requests[r].kind, NoChat, 500)
                    /\ UNCHANGED chatSessions
               ELSE Serve(r, requests[r].kind, geminiClient, FALSE,
                          Inited(clients, c, TRUE))
       ELSE /\ geminiClient' = NoClient
            /\ clients' = Closed(clients, c)
            /\ Answer(r, requests[r].kind, NoChat, 500)
            /\ UNCHANGED chatSessions
    /\ UNCHANGED <<boot, ended, clientVars>>

\* POST /api/chat/message arrives: 400, 404, or chat.sendMessage, which
\* throws on a client that is not running and otherwise awaits the backend
ChatMessage(r, id, complete) ==
    LET sd == chatSessions[id] IN
    /\ boot.phase # "load"
    /\ requests[r].pc = "idle"
    /\ IF ~complete THEN Answer(r, "message", id, 400)
       ELSE IF ~sd.has THEN Answer(r, "message", id, 404)
       ELSE IF clients[sd.chat].state # "running"
       THEN Answer(r, "message", id, 500)
       ELSE /\ requests' = [requests EXCEPT ![r] =
                               [kind |-> "message", pc |-> "generating",
                                chat |-> id, client |-> sd.chat,
                                temp |-> FALSE]]
            /\ sev' = ServerEvent("message", id, 0, NoClient, "none", FALSE)
    /\ UNCHANGED <<geminiClient, clients, chatSessions, boot, ended,
                   clientVars>>

\* the backend answered a generation: an authentication failure closes the
\* client (generateContent's catch block); /api/generate closes its
\* temporary client in `finally`
GenerationDone(r, out) ==
    LET c == requests[r].client
        caught == IF out = "auth" THEN Closed(clients, c) ELSE clients
    IN
    /\ requests[r].pc = "generating"
    /\ clients' = IF requests[r].kind = "generate" /\ requests[r].temp
                  THEN Closed(caught, c) ELSE caught
    /\ Answer(r, requests[r].kind, requests[r].chat,
              IF out = "ok" THEN 200 ELSE 500)
    /\ UNCHANGED <<geminiClient, chatSessions, boot, ended, clientVars>>

\* DELETE /api/chat/:chatId arrives: 404 for an id the registry does not
\* have; a temporary client is closed and the handler awaits that close;
\* otherwise the chat is removed at once
ChatDelete(r, id) ==
    LET sd == chatSessions[id] IN
    /\ boot.phase # "load"
    /\ requests[r].pc = "idle"
    /\ IF ~sd.has
       THEN /\ Answer(r, "delete", id, 404)
            /\ UNCHANGED <<clients, chatSessions, ended>>
       ELSE IF ClosesClient(sd)
       THEN /\ clients' = Closed(clients, sd.client)
            /\ requests' = [requests EXCEPT ![r] =
                               [kind |-> "delete", pc |-> "closing",
                                chat |-> id, client |-> sd.client,
                                temp |-> TRUE]]
            /\ sev' = ServerEvent("delete", id, 0, NoClient, "none", FALSE)
            /\ UNCHANGED <<chatSessions, ended>>
       ELSE /\ chatSessions' = SessionsAfterDelete(id)
            /\ ended' = ended \cup {id}
            /\ Answer(r, "delete", id, 200)
            /\ UNCHANGED clients
    /\ UNCHANGED <<geminiClient, boot, clientVars>>

\* the DELETE handler after `await sessionData.client.close()`
ChatDeleteDone(r) ==
    /\ requests[r].pc = "closing"
    /\ chatSessions' = SessionsAfterDelete(requests[r].chat)
    /\ ended' = ended \cup {requests[r].chat}
    /\ Answer(r, "delete", requests[r].chat, 200)
    /\ UNCHANGED <<geminiClient, clients, boot, clientVars>>

\* ---------------------------------------------------------- specifications
\* A client with its rotation task, used without a chat.
Next ==
    \/ \E ar \in BOOLEAN : InitStart(ar)
    \/ \E st \in GoogleStatuses, x \in {Absent, "nid"} : InitGoogleResp(st, x)
    \/ \E st \in AppStatuses, m \in Markers : InitAppResp(st, m)
    \/ TickStart
    \/ \E st \in RotateStatuses, ts \in RotatedTS \cup {Absent} : TickResp(st, ts)
    \/ Close
    \/ \E p \in Prompts : GenStart(NoChat, p)
    \/ \E s \in Slots, st \in GenStatuses, x \in PlainTexts \cup {NoText} :
          GenResp(s, st, x)
    \/ AdvanceClock
    \/ Revoke

Spec == Init /\ [][Next]_vars

\* A client without rotation task (autoRefresh: false) serving chat threads.
NextChat ==
    \/ InitStart(FALSE)
    \/ \E st \in GoogleStatuses : InitGoogleResp(st, Absent)
    \/ \E st \in AppStatuses, m \in Markers : InitAppResp(st, m)
    \/ Close
    \/ \E t \in OneThread, p \in Prompts : GenStart(t, p)
    \/ \E s \in Slots, st \in GenStatuses, x \in ResponseTexts \cup {NoText} :
          GenResp(s, st, x)
    \/ \E t \in OneThread, T \in SetInputs : SetMetadata(t, T)
    \/ \E t \in OneThread, i \in 1..PointerSlots : SetSlot(t, i, "u")
    \/ \E t \in OneThread, i \in Indexes : ChooseCandidate(t, i)

InitChat == Init /\ cookies.psidts = "ts0"

SpecChat == InitChat /\ [][NextChat]_vars

\* A client without rotation task serving two chat threads: the turns and
\* pointer operations of the two threads interleave freely.
TwoTexts ==
    { [lines |-> 3, hasBody |-> FALSE, meta |-> NullPtr, cands |-> <<>>],
      [lines |-> 3, hasBody |-> TRUE, meta |-> NullPtr,
       cands |-> <<Cand("rcA", "tA")>>],
      [lines |-> 3, hasBody |-> TRUE, meta |-> Arr(<<"c1", "r1">>),
       cands |-> <<Cand("rcA", "tA"), Cand("rcB", "tB")>>],
      [lines |-> 3, hasBody |-> TRUE, meta |-> Arr(<<"c2", "r2", "m2", "n2">>),
       cands |-> <<Cand("rcA", "tA")>>] }

NextTwo ==
    \/ InitStart(FALSE)
    \/ InitGoogleResp(200, Absent)
    \/ InitAppResp(200, "tok")
    \/ \E t \in Threads : GenStart(t, "hi")
    \/ \E s \in Slots, st \in {200, 500}, x \in TwoTexts \cup {NoText} :
          GenResp(s, st, x)
    \/ \E t \in Threads : SetMetadata(t, <<"u", "u">>)
    \/ \E t \in Threads : SetSlot(t, 3, "u")
    \/ \E t \in Threads, i \in {0, 1} : ChooseCandidate(t, i)

SpecTwo == InitChat /\ [][NextTwo]_vars

\* The decoder on its own: parseResponse applied to one response text.
InitDecode ==
    /\ Constructed("sid", "ts0")
    /\ responseText \in RawTexts
    /\ parsed = NotParsed
    /\ ServerLoaded(FALSE)

NextDecode == Decode

SpecDecode == InitDecode /\ [][NextDecode]_vars

\* A client constructed with or without the identity cookie.
InitSeed ==
    /\ \E psid \in SeedPSID, ts \in SeedPSIDTS : Constructed(psid, ts)
    /\ responseText = NoRaw
    /\ parsed = NotParsed
    /\ ServerLoaded(FALSE)

SpecSeed == InitSeed /\ [][Next]_vars

\* A client whose application also calls startAutoRefresh() itself: init,
\* startAutoRefresh and close in any order, with the rotation ticking and
\* generations that may end in an authentication failure.
NextTimer ==
    \/ \E ar \in BOOLEAN : InitStart(ar)
    \/ \E st \in {200, 401} : InitGoogleResp(st, Absent)
    \/ \E st \in {200, 500}, m \in {"tok", Absent} : InitAppResp(st, m)
    \/ StartAutoRefresh
    \/ Close
    \/ TickStart
    \/ \E st \in RotateStatuses, ts \in RotatedTS \cup {Absent} : TickResp(st, ts)
    \/ GenStart(NoChat, "hi")
    \/ \E s \in Slots, st \in {200, 401}, x \in PlainTexts \cup {NoText} :
          GenResp(s, st, x)

SpecTimer == InitChat /\ [][NextTimer]_vars

\* Two sendMessage calls of one thread that overlap: a client without
\* rotation task, one thread, and room for two requests in flight.
OverlapSlots == 1..2

OverlapTexts ==
    { [lines |-> 3, hasBody |-> TRUE, meta |-> Arr(<<"c1", "r1">>),
       cands |-> <<Cand("rcA", "tA"), Cand("rcB", "tB")>>],
      [lines |-> 3, hasBody |-> TRUE, meta |-> Arr(<<"c2", "r2", "m2">>),
       cands |-> <<Cand("rcC", "tC")>>],
      [lines |-> 3, hasBody |-> TRUE, meta |-> NullPtr,
       cands |-> <<Cand("rcD", "tD")>>] }

InitOverlap ==
    /\ ConstructedFor("sid", "ts0", OverlapSlots)
    /\ responseText = NoRaw
    /\ parsed = NotParsed
    /\ ServerLoaded(FALSE)

NextOverlap ==
    \/ InitStart(FALSE)
    \/ InitGoogleResp(200, Absent)
    \/ InitAppResp(200, "tok")
    \/ \E t \in OneThread : GenStart(t, "hi")
    \/ \E s \in OverlapSlots, st \in {200, 500}, x \in OverlapTexts \cup {NoText} :
          GenResp(s, st, x)
    \/ \E t \in OneThread, i \in {0, 1} : ChooseCandidate(t, i)

SpecOverlap == InitOverlap /\ [][NextOverlap]_vars

\* The REST server: the initialization at load, and request handlers that
\* interleave at their awaits.
InitServer ==
    /\ Constructed("sid", "ts0")
    /\ responseText = NoRaw
    /\ parsed = NotParsed
    /\ \E env \in BOOLEAN : ServerLoaded(env)

NextServer ==
    \/ Startup
    \/ \E ok \in BOOLEAN : StartupDone(ok)
    \/ \E r \in ReqIds, withCookies \in BOOLEAN, hasPrompt \in BOOLEAN :
          Generate(r, withCookies, hasPrompt)
    \/ \E r \in ReqIds, withCookies \in BOOLEAN : ChatStart(r, withCookies)
    \/ \E r \in ReqIds, ok \in BOOLEAN : UserInitDone(r, ok)
    \/ \E r \in ReqIds, ok \in BOOLEAN : LazyInitDone(r, ok)
    \/ \E r \in ReqIds, id \in ChatIds, complete \in BOOLEAN :
          ChatMessage(r, id, complete)
    \/ \E r \in ReqIds, out \in {"ok", "error", "auth"} : GenerationDone(r, out)
    \/ \E r \in ReqIds, id \in ChatIds : ChatDelete(r, id)
    \/ \E r \in ReqIds : ChatDeleteDone(r)

SpecServer == InitServer /\ [][NextServer]_vars

\* ------------------------------------------------------------------ claims
\* C1: when a turn on a thread returns successfully, the thread's pointer
\* holds the conversation id and response id of the decoded metadata and the
\* first candidate's rcid in slot 3, lastOutput is the returned result, and a
\* sendMessage on that thread puts the JSON encoding of this pointer in the
\* third element of the inner envelope.
C1_TurnSetsPointer ==
    [][ /\ \A s \in Slots, x \in ResponseTexts :
            (GenResp(s, 200, x) /\ ev'.out = "ok" /\ flight[s].chat \in Threads)
            => LET t == flight[s].chat IN
               /\ metadata'[t].arr
               /\ GetIndex(metadata'[t].slots, 1) = GetIndex(x.meta.slots, 1)
               /\ GetIndex(metadata'[t].slots, 2) = GetIndex(x.meta.slots, 2)
               /\ GetIndex(metadata'[t].slots, 3) = x.cands[1].rcid
               /\ lastOutput'[t] = [some |-> TRUE, cands |-> x.cands]
               /\ ev'.val.cands = x.cands
               /\ ev'.val.top = x.cands[1]
               /\ ev'.val.metadata = metadata'[t]
        /\ \A t \in Threads, p \in Prompts :
            (GenStart(t, p) /\ ev'.out = "pending")
            => \E s \in Slots :
                  /\ ~flight[s].busy
                  /\ flight'[s].busy
                  /\ flight'[s].chat = t
                  /\ flight'[s].hasPtr
                  /\ flight'[s].ptr = JsonPointer(metadata[t])
                  /\ (ev.op = "generate" /\ ev.out = "ok" /\ ev.chat = t)
                     => flight'[s].ptr = JsonPointer(ev.val.metadata) ]_vars

\* a second turn is under way that carries the pointer of the first
C1_Witness ==
    \E s \in Slots :
        /\ flight[s].busy
        /\ flight[s].chat \in Threads
        /\ ev.op = "generate" /\ ev.out = "pending"
        /\ lastOutput[flight[s].chat].some
        /\ flight[s].ptr = Arr(<<"c1", "r1", "rcA">>)

\* C2: in every reachable state the continuation pointer of every thread is
\* a tuple of exactly 3 slots.
C2_PointerHasThreeSlots ==
    \A t \in Threads :
        metadata[t].arr /\ Len(metadata[t].slots) = PointerSlots

\* C3: setMetadata(T) with at most 3 elements makes slots 0..|T|-1 equal T
\* and leaves the slots from |T| on as they were; with more than 3 elements
\* it fails with InvalidArgument and the pointer is unchanged.
C3_SetMetadataFrame ==
    [][ \A t \in Threads, T \in SetInputs :
          SetMetadata(t, T)
          => IF Len(T) > PointerSlots
             THEN ev'.out = "E_LEN" /\ metadata'[t] = metadata[t]
             ELSE /\ ev'.out = "ok"
                  /\ \A i \in 1..Len(T) :
                        GetIndex(metadata'[t].slots, i) = T[i]
                  /\ \A i \in (Len(T) + 1)..PointerSlots :
                        GetIndex(metadata'[t].slots, i)
                          = GetIndex(metadata[t].slots, i)
                  /\ Len(T) = 0 => metadata'[t] = metadata[t] ]_vars

\* C4: a generation call with a non-empty prompt on a session that is not
\* running fails with NotInitialized, sends nothing and leaves the thread's
\* pointer and lastOutput unchanged.
C4_NotInitializedSendsNothing ==
    [][ \A t \in Threads \cup {NoChat}, p \in Prompts :
          (GenStart(t, p) /\ ~PromptRejected(p) /\ ~running)
          => /\ ev'.out = "E_NOTINIT"
             /\ ~ev'.sent
             /\ flight' = flight
             /\ metadata' = metadata
             /\ lastOutput' = lastOutput ]_vars

\* a thread of a session that was closed after being initialized is refused
C4_Witness ==
    /\ ev.op = "generate" /\ ev.out = "E_NOTINIT" /\ ev.chat \in Threads
    /\ ~running
    /\ accessToken = "tok"

\* the debounce window of the tick algorithm: a cache entry written by an
\* earlier tick that is at most 60 s old
InWindow == cache.exists /\ now - cache.mtime <= DebounceMs

\* the statuses by which an operation learns that the backend denies it
DeniedStatuses(op) == IF op = "tick" THEN AuthDeniedRotate ELSE AuthDenied

\* C5 as stated: whenever initialize, a generation turn or a rotation tick
\* receives an authorization-denied status, the session is not running
\* afterwards.
C5_DeniedStopsSession ==
    (ev.op \in {"init", "generate", "tick"}
        /\ ev.status \in DeniedStatuses(ev.op))
    => ~running

\* C5 amended: whenever initialize or a generation turn receives an
\* authorization-denied status the session is not running afterwards and its
\* rotation task is cancelled, and a session that is not running becomes
\* running only by an initialize that succeeds.
C5_DeniedInitOrTurnStopsSession ==
    /\ []( (ev.op \in {"init", "generate"} /\ ev.status \in AuthDenied)
           => (~running /\ refreshIntervalId = NoTimer /\ timers = {}) )
    /\ [][ (~running /\ running') => (ev'.op = "init" /\ ev'.out = "ok") ]_vars

\* a turn was denied on a session that had been initialized with rotation
C5_Witness ==
    /\ ev.op = "generate" /\ ev.out = "E_AUTH" /\ ev.status = 403
    /\ accessToken = "tok"
    /\ autoRefresh
    /\ ~running

\* C6: a tick that fires inside the debounce window of an earlier tick is a
\* no-op: it sends no request, yields no cookie value and leaves the cache
\* entry and the cookies unchanged.
C6_TickInWindowIsNoop ==
    [][ (TickStart /\ InWindow)
        => /\ ev'.out = "noop-debounce"
           /\ ~ev'.sent
           /\ ticksPending' = ticksPending
           /\ cache' = cache
           /\ cookies' = cookies ]_vars

\* a second tick was skipped some time after the first one wrote the cache
C6_Witness ==
    /\ ev.op = "tick" /\ ev.out = "noop-debounce"
    /\ cache.exists
    /\ now - cache.mtime = DebounceMs

\* C7: a tick that fails (transport error, server error, authentication
\* failure) leaves the schedule as it was: the timer it ran on stays
\* scheduled and stays the one the handle refers to.
C7_FailedTickKeepsSchedule ==
    [][ \A st \in RotateStatuses, ts \in RotatedTS \cup {Absent} :
          (TickResp(st, ts) /\ ev'.out \in {"E_HTTP", "E_AUTH"})
          => /\ timers' = timers
             /\ refreshIntervalId' = refreshIntervalId ]_vars

\* a tick failed and the timer is still scheduled
C7_Witness ==
    /\ ev.op = "tick" /\ ev.out = "E_AUTH"
    /\ refreshIntervalId # NoTimer
    /\ refreshIntervalId \in timers

\* C8: a failed tick leaves the cookies, the token and the lifecycle state
\* unchanged and touches no generation request, and a generation call made
\* right after it on a running session sends its request with those cookies.
C8_FailedTickLeavesSession ==
    [][ /\ \A st \in RotateStatuses, ts \in RotatedTS \cup {Absent} :
            (TickResp(st, ts) /\ ev'.out \in {"E_HTTP", "E_AUTH"})
            => /\ cookies' = cookies
               /\ accessToken' = accessToken
               /\ running' = running
               /\ flight' = flight
               /\ cache' = cache
        /\ (ev.op = "tick" /\ ev.out \in {"E_HTTP", "E_AUTH"} /\ running
              /\ GenStart(NoChat, "hi"))
            => /\ ev'.out = "pending"
               /\ \E s \in Slots :
                     /\ ~flight[s].busy
                     /\ flight'[s].busy
                     /\ flight'[s].cookie = cookies
                     /\ flight'[s].at = accessToken ]_vars

\* a tick failed on a running session that holds a rotated cookie
C8_Witness ==
    /\ ev.op = "tick" /\ ev.out = "E_HTTP"
    /\ running
    /\ cookies.psidts \in RotatedTS

\* C9 as stated: on a session the backend denies, every tick that completes
\* raises AuthError, inside the debounce window as well as outside it.
C9_DeniedTickAlwaysRaises ==
    (ev.op = "tick" /\ ev.out # "pending" /\ denied) => ev.out = "E_AUTH"

\* C9 amended: a tick raises AuthError whenever the rotation endpoint
\* answers its request with status 401; on a session the backend denies, a
\* tick that completes without AuthError is one that the debounce window
\* skipped before any request was sent.
C9_DeniedTickRaisesWhenSent ==
    /\ (ev.op = "tick" /\ ev.status \in AuthDeniedRotate) => ev.out = "E_AUTH"
    /\ (ev.op = "tick" /\ denied /\ ev.out \notin {"pending", "E_AUTH"})
       => (ev.out = "noop-debounce" /\ ~ev.sent /\ InWindow)

\* a tick on a denied session raised AuthError
C9_Witness ==
    /\ ev.op = "tick" /\ ev.out = "E_AUTH" /\ ev.status = 401
    /\ denied
    /\ cache.exists

\* C10: a tick that finds a replacement cookie writes it to the cache entry
\* of the identity cookie and to the secondary-cookie key of the bag; the
\* other cookies, the token, the lifecycle state and the schedule are
\* unchanged.
C10_RotationWritesOneCookie ==
    [][ \A st \in RotateStatuses, ts \in RotatedTS :
          (TickResp(st, ts) /\ ev'.out = "rotated")
          => /\ cache' = [exists |-> TRUE, value |-> ts, mtime |-> now]
             /\ cookies'.psidts = ts
             /\ cookies'.psid = cookies.psid
             /\ cookies'.extra = cookies.extra
             /\ accessToken' = accessToken
             /\ running' = running
             /\ autoRefresh' = autoRefresh
             /\ timers' = timers
             /\ refreshIntervalId' = refreshIntervalId ]_vars

\* a rotation happened on a bag that holds a harvested cookie as well
C10_Witness ==
    /\ ev.op = "tick" /\ ev.out = "rotated"
    /\ cookies.extra = "nid"
    /\ cookies.psidts = cache.value
    /\ cache.mtime = now

\* C11: a tick whose answer (a status below 500 that is not the denial
\* status) carries no replacement cookie ends as a no-op without an error:
\* the cache entry with its timestamp, the cookies, the token, the lifecycle
\* state and the schedule are unchanged.
C11_TickWithoutCookieIsNoop ==
    [][ \A st \in RotateStatuses :
          (st < 500 /\ st \notin AuthDeniedRotate /\ TickResp(st, Absent))
          => /\ ev'.out = "noop"
             /\ cache' = cache
             /\ cookies' = cookies
             /\ accessToken' = accessToken
             /\ running' = running
             /\ timers' = timers
             /\ refreshIntervalId' = refreshIntervalId ]_vars

\* the endpoint declined to rotate while an earlier rotation's cache entry
\* exists
C11_Witness ==
    /\ ev.op = "tick" /\ ev.out = "noop" /\ ev.status = 200
    /\ cache.exists
    /\ cookies.psidts = cache.value

\* C12: close() leaves the session not running with no rotation timer
\* scheduled and no handle, a further close() would change nothing of that
\* (close is idempotent, in every lifecycle state), and no rotation tick is
\* started after close(): the step that follows a close() never schedules a
\* rotation timer.
C12_CloseCancelsRotation ==
    [][ /\ Close => /\ ~running'
                    /\ timers' = {}
                    /\ refreshIntervalId' = NoTimer
                    /\ ClosedTimers' = timers'
        /\ (ev.op = "close") => timers' = {} ]_vars

\* C13: a session is running only with the identity cookie in its cookies:
\* a client constructed without it never becomes running.
C13_ReadyHasIdentityCookie == running => cookies.psid # Absent

\* the ways an init call ends in failure
InitFailures == {"E_AUTH", "E_HTTP", "E_STATUS", "E_MARKER"}

\* C14: after an init call failed, at whichever step and whether or not the
\* session was running before, the session is not running and no rotation
\* timer is scheduled; a generation call on a session that is not running
\* fails NotInitialized without sending a request; and the session becomes
\* running again only by an init call that succeeds.
C14_FailedInitStopsSession ==
    /\ []( (ev.op = "init" /\ ev.out \in InitFailures)
           => (~running /\ timers = {} /\ refreshIntervalId = NoTimer) )
    /\ [][ /\ \A p \in Prompts :
                (~running /\ ~PromptRejected(p) /\ GenStart(NoChat, p))
                => (ev'.out = "E_NOTINIT" /\ ~ev'.sent /\ flight' = flight)
           /\ (~running /\ running')
                => (ev'.op = "init" /\ ev'.out = "ok") ]_vars

\* an init call failed on a session that an earlier init had made running
\* with a rotation timer
C14_Witness ==
    /\ ev.op = "init" /\ ev.out \in InitFailures
    /\ accessToken # Null
    /\ autoRefresh
    /\ ~running /\ timers = {}

\* the error kinds of the contract, by how an init call ends: the failures
\* that tell the caller the credentials are refused, and the others
ErrorKind(out) ==
    IF out \in {"E_AUTH", "E_MARKER"} THEN "AuthError" ELSE "TransportError"

\* C15: an init call that fails on the application page's answer fails with
\* AuthError exactly when that answer has an authorization-denied status or
\* is a 200 page without the token marker, and with TransportError for every
\* other status that is not a success.
C15_InitErrorKinds ==
    [][ \A st \in AppStatuses, m \in Markers :
          (InitAppResp(st, m) /\ ev'.out # "ok")
          => ( ErrorKind(ev'.out) = "AuthError"
               <=> (st \in AuthDenied \/ (st = 200 /\ m \in {Absent, ""})) )
      ]_vars

\* C16: while the session is running its access token is a non-empty
\* string, so every generation request in flight carries a non-empty token;
\* and the step of init that makes the session running is the one that
\* stores the token extracted from the app page and the merged cookies.
C16_ReadyHasToken ==
    /\ []( /\ running => accessToken \notin {Null, Absent, ""}
           /\ \A s \in Slots :
                 flight[s].busy => flight[s].at \notin {Null, Absent, ""} )
    /\ [][ \A st \in AppStatuses, m \in Markers :
             (InitAppResp(st, m) /\ running')
             => /\ m \notin {Absent, ""}
                /\ accessToken' = m
                /\ cookies' = MergedCookies(initCall.extra) ]_vars

\* a request is in flight on a running session whose cookies were merged
\* with a harvested one
C16_Witness ==
    /\ running
    /\ accessToken = "tok"
    /\ cookies.extra = "nid"
    /\ \E s \in Slots : flight[s].busy /\ flight[s].at = "tok"

\* C17: the cookies of a generation request are fixed when the request is
\* built: a tick that rotates the secondary cookie while the request is in
\* flight changes the session's cookies and leaves the request's cookies as
\* they were, and a request built afterwards carries the rotated value.
C17_RequestCookiesAreSnapshot ==
    [][ /\ \A st \in RotateStatuses, ts \in RotatedTS :
            (TickResp(st, ts) /\ ev'.out = "rotated")
            => /\ cookies'.psidts = ts
               /\ flight' = flight
        /\ \A p \in Prompts :
            (GenStart(NoChat, p) /\ ev'.out = "pending")
            => \E s \in Slots :
                  /\ ~flight[s].busy
                  /\ flight'[s].busy
                  /\ flight'[s].cookie = cookies
                  /\ \A r \in Slots \ {s} : flight'[r] = flight[r] ]_vars

\* a rotation happened while a request built with the old value is in flight
C17_Witness ==
    /\ ev.op = "tick" /\ ev.out = "rotated"
    /\ cookies.psidts \in RotatedTS
    /\ \E s \in Slots :
          /\ flight[s].busy
          /\ flight[s].cookie.psidts = "ts0"

\* C18: close() leaves the generation requests in flight and the threads as
\* they are, and a turn whose response (status 200, decodable, with a
\* metadata array) arrives after the session was closed still returns its
\* result and updates the thread's pointer and lastOutput.
C18_CloseLeavesTurnsInFlight ==
    [][ /\ Close => /\ flight' = flight
                    /\ metadata' = metadata
                    /\ lastOutput' = lastOutput
        /\ \A s \in Slots, x \in ResponseTexts :
            ( /\ ~running
              /\ flight[s].chat \in Threads
              /\ ParseOk(x) /\ x.meta.arr
              /\ GenResp(s, 200, x) )
            => LET t == flight[s].chat IN
               /\ ev'.out = "ok"
               /\ ev'.val.some
               /\ ev'.val.cands = x.cands
               /\ ev'.val.top = x.cands[1]
               /\ metadata'[t].arr
               /\ GetIndex(metadata'[t].slots, 1) = GetIndex(x.meta.slots, 1)
               /\ GetIndex(metadata'[t].slots, 2) = GetIndex(x.meta.slots, 2)
               /\ GetIndex(metadata'[t].slots, 3) = x.cands[1].rcid
               /\ lastOutput'[t] = [some |-> TRUE, cands |-> x.cands]
      ]_vars

\* a turn returned on a session that was closed while it was in flight
C18_Witness ==
    /\ ev.op = "generate" /\ ev.out = "ok" /\ ev.chat \in Threads
    /\ ~running
    /\ initCall.phase = "idle"
    /\ metadata[ev.chat] = Arr(<<"c1", "r1", "rcA">>)

\* C19: on a thread that has had a successful turn, chooseCandidate(i) with
\* 0 <= i < candidates.length returns the candidate list of the last result,
\* the fields of candidates[i] as its candidate-specific fields and the
\* thread's metadata, and sets slot 3 of the pointer to candidates[i].rcid,
\* leaving the other slots and lastOutput as they were.
C19_ChooseValidCandidate ==
    [][ \A t \in Threads, i \in Indexes :
          ( /\ okTurns[t]
            /\ lastOutput[t].some
            /\ 0 <= i /\ i < Len(lastOutput[t].cands)
            /\ ChooseCandidate(t, i) )
          => /\ ev'.out = "ok"
             /\ ev'.val.cands = lastOutput[t].cands
             /\ ev'.val.top = lastOutput[t].cands[i + 1]
             /\ ev'.val.metadata = metadata'[t]
             /\ metadata'[t].arr
             /\ GetIndex(metadata'[t].slots, 3) = lastOutput[t].cands[i + 1].rcid
             /\ GetIndex(metadata'[t].slots, 1) = GetIndex(metadata[t].slots, 1)
             /\ GetIndex(metadata'[t].slots, 2) = GetIndex(metadata[t].slots, 2)
             /\ lastOutput' = lastOutput ]_vars

\* C20: on a thread that has had a successful turn, chooseCandidate(i) with
\* i negative or i >= candidates.length fails with the index error and
\* leaves the pointer and lastOutput unchanged.
C20_ChooseInvalidIndex ==
    [][ \A t \in Threads, i \in Indexes :
          ( /\ okTurns[t]
            /\ lastOutput[t].some
            /\ (i < 0 \/ i >= Len(lastOutput[t].cands))
            /\ ChooseCandidate(t, i) )
          => /\ ev'.out = "E_INDEX"
             /\ metadata' = metadata
             /\ lastOutput' = lastOutput ]_vars

\* C21: on a thread that has had no successful turn (a thread whose only
\* turns failed included), chooseCandidate(i) fails with "no previous output"
\* for every index i and leaves the pointer unchanged.
C21_ChooseWithoutResult ==
    [][ \A t \in Threads, i \in Indexes :
          (~okTurns[t] /\ ChooseCandidate(t, i))
          => /\ ev'.out = "E_NOOUTPUT"
             /\ metadata' = metadata ]_vars

\* C21 on a thread that has had no turn at all
C21_FreshThread ==
    [][ \A t \in Threads, i \in Indexes :
          (~lastOutput[t].some /\ ChooseCandidate(t, i))
          => /\ ev'.out = "E_NOOUTPUT"
             /\ metadata' = metadata
             /\ lastOutput' = lastOutput ]_vars

\* C22: after chooseCandidate(i) succeeded, the candidate slot of the pointer
\* is candidates[i].rcid and the conversation and response slots are those
\* of the last response; the request of the thread's next turn carries that
\* pointer; and when a turn succeeds the candidate slot is the id of the
\* first candidate of the new result, whatever was selected before.
C22_ChosenCandidateIsSentOnce ==
    [][ /\ \A t \in Threads, i \in Indexes :
             ( /\ ev.op = "generate" /\ ev.out = "ok" /\ ev.chat = t
               /\ ChooseCandidate(t, i)
               /\ ev'.out = "ok" )
             => /\ GetIndex(metadata'[t].slots, 3) = ev.val.cands[i + 1].rcid
                /\ GetIndex(metadata'[t].slots, 1) =
                       GetIndex(ev.val.metadata.slots, 1)
                /\ GetIndex(metadata'[t].slots, 2) =
                       GetIndex(ev.val.metadata.slots, 2)
        /\ \A t \in Threads, p \in Prompts :
             ( /\ ev.op = "chooseCandidate" /\ ev.out = "ok" /\ ev.chat = t
               /\ GenStart(t, p)
               /\ ev'.out = "pending" )
             => \E s \in Slots :
                   /\ ~flight[s].busy
                   /\ flight'[s].busy /\ flight'[s].chat = t
                   /\ flight'[s].hasPtr /\ flight'[s].ptr.arr
                   /\ GetIndex(flight'[s].ptr.slots, 3) = ev.val.top.rcid
                   /\ \A k \in 1..2 :
                         GetIndex(flight'[s].ptr.slots, k) =
                            JsonValue(GetIndex(ev.val.metadata.slots, k))
        /\ \A s \in Slots, x \in ResponseTexts :
             ( /\ flight[s].chat \in Threads
               /\ GenResp(s, 200, x)
               /\ ev'.out = "ok" )
             => /\ GetIndex(metadata'[flight[s].chat].slots, 3) =
                       x.cands[1].rcid
                /\ ev'.val.top.rcid = x.cands[1].rcid ]_vars

\* a turn in flight whose request carries the id of a second candidate, which
\* only chooseCandidate(1) puts into the pointer
C22_Witness ==
    /\ ev.op = "generate" /\ ev.out = "pending" /\ ev.chat \in Threads
    /\ \E s \in Slots :
          /\ flight[s].busy /\ flight[s].chat = ev.chat
          /\ GetIndex(flight[s].ptr.slots, 3) = "rcB"
          /\ GetIndex(flight[s].ptr.slots, 1) = "c2"

\* C24: generateContent / sendMessage with a prompt that is absent, empty or
\* only whitespace fails with the prompt error before any request is sent,
\* whether or not the session is initialised, and leaves session, requests
\* in flight and thread state unchanged.
C24_EmptyPromptRejected ==
    [][ \A t \in Threads \cup {NoChat}, p \in {Undef, "", " "} :
          GenStart(t, p)
          => /\ ev'.out = "E_PROMPT"
             /\ ~ev'.sent
             /\ UNCHANGED <<sessionVars, threadVars, flight, initCall>> ]_vars

\* the prompt error on a running session with a free request slot, on a
\* thread that has a result
C24_Witness ==
    /\ ev.op = "generate" /\ ev.out = "E_PROMPT"
    /\ ev.chat \in Threads
    /\ running
    /\ \E s \in Slots : ~flight[s].busy
    /\ okTurns[ev.chat]

\* C30: a 200 response whose text has fewer than 3 lines makes the turn fail
\* with the parse error and return no result; on a thread, the pointer and
\* lastOutput stay as they were.
C30_ShortResponseIsParseError ==
    [][ \A s \in Slots, x \in ResponseTexts \cup PlainTexts :
          (x.lines < 3 /\ GenResp(s, 200, x))
          => /\ ev'.out = "E_PARSE"
             /\ ev'.val = NoValue
             /\ UNCHANGED threadVars ]_vars

\* a turn that ended with the parse error on a thread holding the result of
\* an earlier turn
C30_Witness ==
    /\ ev.op = "generate" /\ ev.out = "E_PARSE" /\ ev.status = 200
    /\ ev.chat \in Threads
    /\ okTurns[ev.chat]
    /\ lastOutput[ev.chat].some
    /\ metadata[ev.chat].arr

\* C23: with two threads on one client, every step changes the pointer and
\* lastOutput of at most the thread the step's operation was called on: a
\* sendMessage, chooseCandidate or setMetadata on one thread, however the two
\* threads' operations interleave, leaves the other thread's pointer and
\* lastOutput as they were.
C23_ThreadOwnsPointer ==
    [][ \A u \in Threads :
          (metadata'[u] # metadata[u] \/ lastOutput'[u] # lastOutput[u])
          => /\ ev'.chat = u
             /\ \A t \in Threads \ {u} :
                   metadata'[t] = metadata[t] /\ lastOutput'[t] = lastOutput[t]
      ]_vars

\* thread 1 selected a candidate while a turn of thread 2 is in flight, both
\* threads holding results of their own
C23_Witness ==
    /\ ev.op = "chooseCandidate" /\ ev.out = "ok" /\ ev.chat = 1
    /\ okTurns[1] /\ okTurns[2]
    /\ GetIndex(metadata[1].slots, 1) = "c1"
    /\ GetIndex(metadata[1].slots, 3) = "rcB"
    /\ GetIndex(metadata[2].slots, 1) = "c2"
    /\ \E s \in Slots : flight[s].busy /\ flight[s].chat = 2

\* what Scenario A expects of the result: exactly one candidate, whose text
\* is "hi" and whose images, codeBlocks and sources are empty
OneCandidateHi(result) ==
    /\ result.status = "ok"
    /\ Len(result.candidates) = 1
    /\ result.candidates[1].text = Hi
    /\ result.top.text = Hi
    /\ result.candidates[1].images = <<>>
    /\ result.candidates[1].codeBlocks = <<>>
    /\ result.candidates[1].sources = <<>>

\* C25 as stated: the three-line text whose third line is [[null,null,S]]
\* with S the JSON text of [null,null,null,[[[0,["hi"]]]]] decodes to a result
\* with exactly one candidate, text "hi", and empty images, codeBlocks and
\* sources.
C25_ScenarioAAsWritten ==
    (responseText = ScenarioAWritten /\ parsed # NotParsed)
    => OneCandidateHi(parsed)

\* C25: the three-line text whose third line is [[null,null,S]] with S the
\* JSON text of [null,null,null,null,[[0,["hi"]]]] (the candidate list at
\* index 4, holding the candidate [0,["hi"]]) decodes to a result with
\* exactly one candidate, text "hi", and empty images, codeBlocks and
\* sources; the text as written in Scenario A is rejected with
\* "No valid response body found".
C25_ScenarioA ==
    /\ (responseText = ScenarioAIndex4 /\ parsed # NotParsed)
       => OneCandidateHi(parsed)
    /\ (responseText = ScenarioAWritten /\ parsed # NotParsed)
       => parsed = ParseFailure("No valid response body found")

\* the decoder has returned for the text with the candidate list at index 4
C25_Witness ==
    /\ responseText = ScenarioAIndex4
    /\ parsed.status = "ok"
    /\ parsed.top.rcid = JNum(0)

\* the outer array on the third line of a response text
OuterArray(text) == text.third.a[1]
HasOuterArray(text) ==
    /\ text.lines >= 3
    /\ text.third.k = "string" /\ text.third.a # <<>>
    /\ OuterArray(text).k = "array"

\* the element holds at index 2 a string that decodes to a value with a
\* truthy index 4
Qualifies(element) ==
    /\ element.k = "array" /\ Len(element.a) >= 3
    /\ element.a[3].k = "string" /\ element.a[3].a # <<>>
    /\ LET v == element.a[3].a[1] IN
          \/ v.k = "array" /\ Len(v.a) >= 5 /\ Truthy(v.a[5])
          \/ v.k = "string" /\ v.n >= 5

\* the candidate list is an array of arrays that hold a text or null at [1][0]
\* and nothing at index 12
PlainList(list) ==
    /\ list.k = "array" /\ Len(list.a) > 0
    /\ \A i \in 1..Len(list.a) :
          /\ list.a[i].k = "array" /\ Len(list.a[i].a) \in 2..12
          /\ list.a[i].a[2].k = "array" /\ Len(list.a[i].a[2].a) > 0
          /\ list.a[i].a[2].a[1].k \in {"string", "null"}

\* C26: the decoder takes as body the value decoded from index 2 of the
\* first element of the outer array that qualifies (its index-2 string
\* decodes to a value with a truthy index 4), passing over the elements
\* before it whatever they are; the result's metadata and candidates are
\* those of that body; with no qualifying element decoding fails with
\* "No valid response body found" and returns nothing.
C26_FirstQualifyingElementIsBody ==
    (HasOuterArray(responseText) /\ parsed # NotParsed)
    => LET outer == OuterArray(responseText).a
           hits == {i \in 1..Len(outer) : Qualifies(outer[i])}
       IN
       IF hits = {}
       THEN parsed = ParseFailure("No valid response body found")
       ELSE LET first == CHOOSE i \in hits : \A j \in hits : i <= j
                body == outer[first].a[3].a[1]
            IN
            /\ parsed.message # "No valid response body found"
            /\ parsed.status = "ok"
               => /\ parsed.metadata = body.a[2]
                  /\ Len(parsed.candidates) = Len(body.a[5].a)
                  /\ \A i \in 1..Len(parsed.candidates) :
                        parsed.candidates[i].rcid = body.a[5].a[i].a[1]
            /\ (body.k = "array" /\ PlainList(body.a[5]))
               => parsed.status = "ok"

\* the body was found behind seven elements that do not qualify, and before
\* another element that qualifies
C26_Witness ==
    /\ HasOuterArray(responseText)
    /\ Len(OuterArray(responseText).a) = 9
    /\ ~Qualifies(OuterArray(responseText).a[7])
    /\ Qualifies(OuterArray(responseText).a[8])
    /\ Qualifies(OuterArray(responseText).a[9])
    /\ parsed.status = "ok"
    /\ parsed.top.rcid = JStr("rcA", 3)

\* the candidate has its text: an array with a string or null at [1][0]
HasText(candidate) ==
    /\ candidate.k = "array" /\ Len(candidate.a) >= 2
    /\ candidate.a[2].k = "array" /\ Len(candidate.a[2].a) > 0
    /\ candidate.a[2].a[1].k \in {"string", "null"}

\* the response text is one frame whose body holds a non-empty list of
\* candidates that have their text
HasCandidatesWithText(text) ==
    /\ HasOuterArray(text)
    /\ Len(OuterArray(text).a) = 1
    /\ Qualifies(OuterArray(text).a[1])
    /\ LET body == OuterArray(text).a[1].a[3].a[1] IN
          /\ body.k = "array" /\ body.a[5].k = "array"
          /\ Len(body.a[5].a) > 0
          /\ \A i \in 1..Len(body.a[5].a) : HasText(body.a[5].a[i])
CandidateList(text) == OuterArray(text).a[1].a[3].a[1].a[5].a

\* C27: once a body with a non-empty candidate list is found, whatever the
\* optional fields of its candidates hold (thoughts, file attachments, code
\* blocks, code execution result, factuality, sources, web images, generated
\* images: absent or malformed), decoding returns, with every candidate and
\* its id.
C27_OptionalFieldsNeverRaise ==
    (HasCandidatesWithText(responseText) /\ parsed # NotParsed)
    => /\ parsed.status = "ok"
       /\ Len(parsed.candidates) = Len(CandidateList(responseText))
       /\ \A i \in 1..Len(parsed.candidates) :
             parsed.candidates[i].rcid = CandidateList(responseText)[i].a[1]

\* C27 for candidates that hold nothing at index 12 (the images)
C27_FieldsOtherThanImages ==
    ( /\ HasCandidatesWithText(responseText)
      /\ \A i \in 1..Len(CandidateList(responseText)) :
            Len(CandidateList(responseText)[i].a) <= 12
      /\ parsed # NotParsed )
    => /\ parsed.status = "ok"
       /\ Len(parsed.candidates) = Len(CandidateList(responseText))

\* candidate[14] of the i-th candidate, and the fenced regions of its text
StructuredList(text, i) ==
    IF Len(CandidateList(text)[i].a) >= 15
    THEN CandidateList(text)[i].a[15] ELSE JUndef
FencedOf(text, i) ==
    LET t == CandidateList(text)[i].a[2].a[1] IN
    IF t.k = "string" THEN FencedBlocks(t.s) ELSE <<>>

\* the entries of candidate[14] as code blocks: [language, code] pairs with
\* a non-empty code
EntriesOf(list) ==
    LET kept == SelectSeq(list.a, LAMBDA c :
                    c.k = "array" /\ Len(c.a) >= 2 /\ Truthy(c.a[2]))
    IN [j \in 1..Len(kept) |->
          [language |-> IF Truthy(kept[j].a[1]) THEN kept[j].a[1]
                        ELSE JStr("text", 4),
           code |-> kept[j].a[2]]]

\* C28 as stated: when candidate[14] is a non-empty array the code blocks
\* come from candidate[14] only and the fenced regions of the text
\* contribute nothing; the fenced regions are used only when candidate[14]
\* is empty or absent; the two are never mixed.
C28_CodeBlocksFromOneSource ==
    (HasCandidatesWithText(responseText) /\ parsed.status = "ok")
    => \A i \in 1..Len(parsed.candidates) :
          LET list == StructuredList(responseText, i)
              blocks == parsed.candidates[i].codeBlocks
          IN
          IF list.k = "array" /\ Len(list.a) > 0
          THEN blocks = EntriesOf(list)
          ELSE blocks = FencedOf(responseText, i)

\* C28: the code blocks are the usable entries of candidate[14] ([language,
\* code] pairs with a non-empty code) when there is at least one, and the
\* fenced regions of the text otherwise (candidate[14] absent, empty, no
\* array, or without a usable entry); the two are never mixed.
C28_FallbackWhenNoEntryUsable ==
    (HasCandidatesWithText(responseText) /\ parsed.status = "ok")
    => \A i \in 1..Len(parsed.candidates) :
          LET list == StructuredList(responseText, i)
              blocks == parsed.candidates[i].codeBlocks
              entries == IF list.k = "array" THEN EntriesOf(list) ELSE <<>>
          IN
          /\ entries # <<>> => blocks = entries
          /\ entries = <<>> => blocks = FencedOf(responseText, i)

\* a candidate with a usable entry at candidate[14] and fenced regions in
\* its text was decoded: one block, from candidate[14]
C28_Witness ==
    /\ HasCandidatesWithText(responseText)
    /\ parsed.status = "ok"
    /\ StructuredList(responseText, 1).k = "array"
    /\ EntriesOf(StructuredList(responseText, 1)) # <<>>
    /\ FencedOf(responseText, 1) # <<>>
    /\ Len(parsed.top.codeBlocks) = 1
    /\ parsed.top.codeBlocks[1].language = JStr("python", 6)

\* the body the scan selects in a response text with an outer array
SelectedBody(text) ==
    LET outer == OuterArray(text).a
        first == CHOOSE i \in 1..Len(outer) :
                    /\ Qualifies(outer[i])
                    /\ \A j \in 1..(i - 1) : ~Qualifies(outer[j])
    IN outer[first].a[3].a[1]

\* C29: every result the decoder returns has at least one candidate, its
\* metadata is body[1], and its top-level fields (text, thoughts, images,
\* webImages, generatedImages, fileAttachments, codeBlocks,
\* codeExecutionResult, factuality, sources, rcid) are those of
\* candidates[0]; a body with an empty candidate list is an error.
C29_ResultMirrorsFirstCandidate ==
    /\ parsed.status = "ok"
       => /\ Len(parsed.candidates) > 0
          /\ parsed.top.text = parsed.candidates[1].text
          /\ parsed.top.thoughts = parsed.candidates[1].thoughts
          /\ parsed.top.images = parsed.candidates[1].images
          /\ parsed.top.webImages = parsed.candidates[1].webImages
          /\ parsed.top.generatedImages = parsed.candidates[1].generatedImages
          /\ parsed.top.fileAttachments = parsed.candidates[1].fileAttachments
          /\ parsed.top.codeBlocks = parsed.candidates[1].codeBlocks
          /\ parsed.top.codeExecutionResult =
                parsed.candidates[1].codeExecutionResult
          /\ parsed.top.factuality = parsed.candidates[1].factuality
          /\ parsed.top.sources = parsed.candidates[1].sources
          /\ parsed.top.rcid = parsed.candidates[1].rcid
          /\ HasOuterArray(responseText)
          /\ parsed.metadata = SelectedBody(responseText).a[2]
    /\ ( /\ parsed # NotParsed
         /\ HasOuterArray(responseText)
         /\ \E i \in 1..Len(OuterArray(responseText).a) :
               Qualifies(OuterArray(responseText).a[i])
         /\ SelectedBody(responseText).k = "array"
         /\ SelectedBody(responseText).a[5] = JArr(<<>>) )
       => parsed = ParseFailure("No candidates found in response")

\* a result with two candidates that differ, and a metadata array
C29_Witness ==
    /\ parsed.status = "ok"
    /\ Len(parsed.candidates) = 2
    /\ parsed.candidates[1].rcid = JStr("rcA", 3)
    /\ parsed.candidates[2].rcid = JStr("rcC", 3)
    /\ parsed.candidates[2].codeBlocks # <<>>
    /\ parsed.top.rcid = JStr("rcA", 3)
    /\ parsed.metadata = JArr(<<JStr("c1", 2)>>)

\* C32: a sendMessage call that throws, for whatever reason, leaves the
\* thread's continuation pointer and its lastOutput as they were before the
\* call.
C32_ThrownTurnLeavesThread ==
    [][ (\E s \in Slots, st \in GenStatuses, x \in ResponseTexts \cup {NoText} :
            /\ GenResp(s, st, x)
            /\ flight[s].chat # NoChat
            /\ ev'.out # "ok")
        => UNCHANGED <<metadata, lastOutput>> ]_vars

\* C32 for every way of throwing except the TypeError of the pointer update:
\* the rejected call, the transport error, the status, the authentication
\* failure and the decode failure leave the thread alone.
C32_ThrownBeforeUpdate ==
    [][ (ev'.op = "generate" /\ ev'.chat # NoChat /\ ev' # ev
         /\ ev'.out \notin {"ok", "pending", "E_TYPE"})
        => UNCHANGED <<metadata, lastOutput>> ]_vars

\* a turn has thrown on a thread that had a pointer and a result to lose
C32_Witness ==
    /\ ev.op = "generate" /\ ev.chat = 1
    /\ ev.out \in {"E_TIMEOUT", "E_AUTH", "E_HTTP", "E_STATUS", "E_PARSE"}
    /\ lastOutput[1].some
    /\ metadata[1].arr /\ metadata[1].slots[1] # Null

\* C33: chooseCandidate, setMetadata and the cid/rid/rcid setters change only
\* the thread's pointer: the GenerationResult held as lastOutput (the object
\* sendMessage returned), its metadata field included, keeps its value.
C33_PointerOperationsLeaveResult ==
    [][ \A t \in OneThread :
          (/\ lastOutput[t].some
           /\ \/ \E T \in SetInputs : SetMetadata(t, T)
              \/ \E i \in 1..PointerSlots : SetSlot(t, i, "u")
              \/ \E i \in Indexes : ChooseCandidate(t, i))
          => LastOutputValue(t)' = LastOutputValue(t) ]_vars

\* C33 for the fields of the result other than metadata
C33_CandidatesKept ==
    [][ \A t \in OneThread :
          (/\ lastOutput[t].some
           /\ \/ \E T \in SetInputs : SetMetadata(t, T)
              \/ \E i \in 1..PointerSlots : SetSlot(t, i, "u")
              \/ \E i \in Indexes : ChooseCandidate(t, i))
          => /\ LastOutputValue(t)'.cands = LastOutputValue(t).cands
             /\ LastOutputValue(t)'.top = LastOutputValue(t).top ]_vars

\* a pointer operation has changed the pointer of a thread that holds a result
C33_Witness ==
    /\ ev.op \in {"chooseCandidate", "setMetadata", "setSlot"}
    /\ ev.out = "ok" /\ ev.chat = 1
    /\ lastOutput[1].some
    /\ metadata[1].arr /\ metadata[1].slots[PointerSlots] \in {"u", "rcB"}

\* C35: when close() is called while an init call is awaiting its handshake
\* and that init call then completes (no init being called after the close),
\* the session is closed: not running, and no rotation timer is scheduled.
C35_CloseDuringInitWins ==
    [][ (/\ ev.op = "close"
         /\ initCall.phase = "app"
         /\ initCall'.phase = "idle")
        => /\ ~running'
           /\ timers' = {}
           /\ refreshIntervalId' = NoTimer ]_vars

\* C35 for an init call that fails after the close
C35_FailedInitAfterClose ==
    [][ (/\ ev.op = "close"
         /\ initCall.phase # "idle"
         /\ initCall'.phase = "idle"
         /\ ev'.out # "ok")
        => /\ ~running'
           /\ timers' = {}
           /\ refreshIntervalId' = NoTimer ]_vars

\* close() ran while the init call awaited the application page
C35_Witness ==
    /\ ev.op = "close"
    /\ initCall.phase = "app"
    /\ autoRefresh

\* C36: after every successful init a rotation timer is scheduled exactly
\* when that call asked for auto-refresh; re-initializing a session that has
\* a rotation timer with auto-refresh disabled leaves none scheduled.
C36_TimerIffRequested ==
    [][ (/\ initCall.phase = "app"
         /\ ev'.op = "init" /\ ev'.out = "ok")
        => /\ (timers' # {}) <=> autoRefresh
           /\ (refreshIntervalId' # NoTimer) <=> autoRefresh ]_vars

\* C36, one direction: a successful init that asked for auto-refresh leaves
\* a rotation timer scheduled, and a first init that did not leaves none
C36_RequestedIsScheduled ==
    [][ (/\ initCall.phase = "app"
         /\ ev'.op = "init" /\ ev'.out = "ok")
        => /\ autoRefresh => timers' # {} /\ refreshIntervalId' \in timers'
           /\ (~autoRefresh /\ timers = {}) => timers' = {} ]_vars

\* an init call with auto-refresh disabled has succeeded on a session whose
\* rotation timer was running
C36_Witness ==
    /\ ev.op = "init" /\ ev.out = "ok"
    /\ ~autoRefresh
    /\ running

\* C37: at most one rotation timer is scheduled per client in every
\* reachable state; the handle refers to that timer, and no timer is
\* scheduled that the handle does not refer to.
C37_OneTimerUnderHandle ==
    /\ Cardinality(timers) <= 1
    /\ timers \subseteq {refreshIntervalId}
    /\ refreshIntervalId # NoTimer => refreshIntervalId \in timers

\* startAutoRefresh() has replaced a scheduled timer by a new one
C37_Witness ==
    /\ ev.op = "startAutoRefresh"
    /\ running /\ autoRefresh
    /\ timers = {refreshIntervalId}

\* the pointers a thread can hold that come from one response: conversation
\* and response slots of its metadata, candidate slot of one of its candidates
PointersOf(x) ==
    { Arr(SetIndex(x.meta.slots, PointerSlots, x.cands[i].rcid)) :
        i \in 1..Len(x.cands) }

\* C34: when two sendMessage calls of one thread overlap, each request
\* carries the pointer as it was when the request was built (a turn that
\* completes meanwhile does not change it), and each completed turn updates
\* the pointer as a whole: in every reachable state the slots of the pointer
\* come from one response, the one processed last, whose result the thread
\* holds as lastOutput; they are never a mixture of two responses.
C34_OverlappingTurns ==
    /\ [](metadata[1].arr /\ lastOutput[1].some
          => \E x \in OverlapTexts :
                /\ x.meta.arr
                /\ metadata[1] \in PointersOf(x)
                /\ lastOutput[1].cands = x.cands)
    /\ [][ /\ \A s \in OverlapSlots :
                flight[s].busy /\ flight'[s].busy
                => flight'[s].ptr = flight[s].ptr
           /\ \A s \in OverlapSlots :
                ~flight[s].busy /\ flight'[s].busy
                => flight'[s].ptr = JsonPointer(metadata[1])
           /\ \A s \in OverlapSlots, x \in OverlapTexts :
                (GenResp(s, 200, x) /\ ev'.out = "ok")
                => /\ metadata'[1] =
                        Arr(SetIndex(x.meta.slots, PointerSlots,
                                     x.cands[1].rcid))
                   /\ lastOutput'[1].cands = x.cands ]_vars

\* a turn has completed while another request of the thread, built on the
\* pointer of before, is still in flight
C34_Witness ==
    /\ ev.op = "generate" /\ ev.out = "ok" /\ ev.chat = 1
    /\ metadata[1].slots[1] = "c2"
    /\ \E s \in OverlapSlots :
          /\ flight[s].busy
          /\ flight[s].ptr.arr
          /\ GetIndex(flight[s].ptr.slots, 1) = "c1"

\* a DELETE handler takes a step for chat id
DeleteStep(id) ==
    \E r \in ReqIds :
        \/ ChatDelete(r, id)
        \/ ChatDeleteDone(r) /\ requests[r].chat = id

\* C31: a DELETE that ends a chat removes it from the registry, and closes
\* the chat's client exactly when that client is a temporary per-user
\* client; no step of a DELETE handler changes the global client; and once
\* the chat has ended, every message or delete that arrives for its id is
\* answered 404.
C31_EndingAChat ==
    /\ [](\A id \in ended : ~chatSessions[id].has)
    /\ [][ \A id \in ChatIds :
             /\ (DeleteStep(id) /\ chatSessions[id].has /\ sev'.status = 200)
                => /\ ~chatSessions'[id].has
                   /\ id \in ended'
                   /\ chatSessions[id].isUserClient
                      => clients'[chatSessions[id].chat].state = "closed"
             /\ DeleteStep(id)
                => /\ geminiClient' = geminiClient
                   /\ geminiClient # NoClient
                      => clients'[geminiClient] = clients[geminiClient]
                   /\ \A c \in ClientIds :
                         clients'[c] # clients[c]
                         => /\ chatSessions[id].isUserClient
                            /\ c = chatSessions[id].chat
             /\ (/\ id \in ended
                 /\ \E r \in ReqIds : \/ ChatMessage(r, id, TRUE)
                                      \/ ChatDelete(r, id))
                => sev'.status = 404 ]_vars

\* a chat on a temporary client has been ended, its client is closed, while
\* a chat on the running global client has been ended as well
C31_Witness ==
    /\ ended = ChatIds
    /\ geminiClient # NoClient
    /\ clients[geminiClient].state = "running"
    /\ \E c \in ClientIds \ {geminiClient} : clients[c].state = "closed"
    /\ sev.kind \in {"message", "delete"} /\ sev.status = 404

\* C38: at most one client with a scheduled rotation timer exists at any
\* time, and it is the one the server references as its global client:
\* initializations that run while requests arrive never leave an initialized
\* client with its timer that the server no longer references.
C38_OneGlobalClientWithTimer ==
    /\ Cardinality({c \in ClientIds : clients[c].timer}) <= 1
    /\ \A c \in ClientIds : clients[c].timer => geminiClient = c

\* a request without cookies has arrived while another request's lazy
\* initialization of the global client is still awaiting
C38_Witness ==
    /\ \E r \in ReqIds :
          /\ requests[r].pc = "lazyinit"
          /\ sev.handed = requests[r].client
    /\ sev.state = "new"

\* the lazy initialization has completed with a timer scheduled, after an
\* earlier global client failed to initialize
C38_WitnessLazy ==
    /\ geminiClient # NoClient
    /\ clients[geminiClient].timer
    /\ \E c \in ClientIds \ {geminiClient} : clients[c].state = "closed"
    /\ sev.handed = geminiClient

\* C39: every client that getClientInstance hands to a request handler is
\* running at that moment.
C39_HandedClientIsRunning ==
    sev.handed # NoClient => sev.state = "running"

\* C39, the named case: a global client that has been closed is not handed
\* to a later request
C39_ClosedClientNotHanded ==
    sev.handed # NoClient => sev.state # "closed"

\* C39 for the temporary clients
C39_TemporaryClientIsRunning ==
    (sev.handed # NoClient /\ sev.temp) => sev.state = "running"

\* a request without cookies has been handed the global client
C39_Witness ==
    /\ sev.handed # NoClient
    /\ sev.handed = geminiClient
    /\ ~sev.temp

==============================================================================
